---- MODULE Spec2Model ----
(***************************************************************************)
(* Model of the unified image-selection request handler (POST, Stage 1,    *)
(* Stage 2, Stage 2.5 CLIP narrowing, Stage 3) together with ClipFilter,   *)
(* the embedding cache and the similarity functions it uses.               *)
(*                                                                         *)
(* Names are tuples of one-character strings so that toLowerCase and       *)
(* String.includes can be computed.  A cosine similarity s >= 0 is held    *)
(* exactly as the fraction n/d = s^2 (order on s is the order on s^2).     *)
(***************************************************************************)
EXTENDS Integers, Sequences, FiniteSets, TLC

\* ----------------------------------------------------------------------
\* Bounds of the model
\* ----------------------------------------------------------------------
\* size of the "big" gallery templates (more than the CLIP skip threshold)
BigN == 11
\* size of the small gallery template
SmallN == 3

\* ----------------------------------------------------------------------
\* Program constants
\* ----------------------------------------------------------------------
\* topK passed to filterImagesBySimilarity
TopK == 10
\* galleries with at most this many images skip CLIP
ClipSkipMax == 10
\* EmbeddingCache maxSize / defaultTTL given by ClipFilter's constructor
CacheMaxSize == 1000
CacheDefaultTTL == 3600

\* ----------------------------------------------------------------------
\* Strings
\* ----------------------------------------------------------------------
toLowerChar(c) ==
  CASE c = "R" -> "r"
    [] c = "B" -> "b"
    [] c = "E" -> "e"
    [] OTHER -> c

toLowerCase(s) == [i \in 1..Len(s) |-> toLowerChar(s[i])]

\* String.prototype.includes
includes(hay, needle) ==
  \E i \in 0..(Len(hay) - Len(needle)) :
     SubSeq(hay, i + 1, i + Len(needle)) = needle

\* ----------------------------------------------------------------------
\* Sequence helpers (Array.prototype.filter / map / find)
\* ----------------------------------------------------------------------
SeqRange(s) == {s[i] : i \in 1..Len(s)}

RECURSIVE SumSeq(_)
SumSeq(s) == IF s = <<>> THEN 0 ELSE Head(s) + SumSeq(Tail(s))

\* ----------------------------------------------------------------------
\* similarity.ts
\* ----------------------------------------------------------------------
\* sum of squares: computeMagnitude(v)^2
computeMagnitudeSq(v) == SumSeq([i \in 1..Len(v) |-> v[i] * v[i]])

computeDotProduct(vec1, vec2) == SumSeq([i \in 1..Len(vec1) |-> vec1[i] * vec2[i]])

\* mutant: only the first vector is tested for zero magnitude
computeCosineSimilarity_FirstOnly(e1, e2) ==
  LET m1 == computeMagnitudeSq(e1)
      m2 == computeMagnitudeSq(e2)
      dp == computeDotProduct(e1, e2)
  IN IF m1 = 0 THEN [n |-> 0, d |-> 1]
     ELSE IF dp < 0 THEN [n |-> 0, d |-> 1]
     ELSE [n |-> dp * dp, d |-> m1 * m2]

\* the similarity as the exact fraction n/d of its square, before any
\* rounding; zero vector -> 0; negative cosine clamped to 0
computeCosineSimilarity(e1, e2) ==
  LET m1 == computeMagnitudeSq(e1)
      m2 == computeMagnitudeSq(e2)
      dp == computeDotProduct(e1, e2)
  IN IF m1 = 0 \/ m2 = 0 THEN [n |-> 0, d |-> 1]
     ELSE IF dp < 0 THEN [n |-> 0, d |-> 1]
     ELSE [n |-> dp * dp, d |-> m1 * m2]

\* a > b on similarities
SimGreater(a, b) == a.n * b.d > b.n * a.d

\* Array.prototype.sort((a, b) => b.score - a.score): stable, descending.
\* Insert x after every element that is not smaller than it.
\* mutant: comparator a.score - b.score (ascending)
RECURSIVE InsertAsc(_, _)
InsertAsc(sorted, x) ==
  IF sorted = <<>> THEN <<x>>
  ELSE IF SimGreater(Head(sorted).score, x.score)
       THEN <<x>> \o sorted
       ELSE <<Head(sorted)>> \o InsertAsc(Tail(sorted), x)

\* mutant: an element is put before the elements equal to it
RECURSIVE InsertDesc_TiesFirst(_, _)
InsertDesc_TiesFirst(sorted, x) ==
  IF sorted = <<>> THEN <<x>>
  ELSE IF ~SimGreater(Head(sorted).score, x.score)
       THEN <<x>> \o sorted
       ELSE <<Head(sorted)>> \o InsertDesc_TiesFirst(Tail(sorted), x)

RECURSIVE InsertDesc(_, _)
InsertDesc(sorted, x) ==
  IF sorted = <<>> THEN <<x>>
  ELSE IF SimGreater(x.score, Head(sorted).score)
       THEN <<x>> \o sorted
       ELSE <<Head(sorted)>> \o InsertDesc(Tail(sorted), x)

RECURSIVE SortDesc(_, _)
SortDesc(acc, rest) ==
  IF rest = <<>> THEN acc ELSE SortDesc(InsertDesc(acc, Head(rest)), Tail(rest))

sortBySimilarity(items, scores) ==
  SortDesc(<<>>, [i \in 1..Len(items) |-> [item |-> items[i], score |-> scores[i]]])

\* ----------------------------------------------------------------------
\* cache.ts: EmbeddingCache.  The Map is held as the set of its entries: its
\* insertion order only decides which entry set() evicts once maxSize entries
\* are stored, and one request touches far fewer keys than maxSize.
\* ----------------------------------------------------------------------
createCacheKey(key) == <<key.type, key.value>>

CacheHas(c, ck) == \E e \in c : e.key = ck

CacheEntryOf(c, ck) == CHOOSE e \in c : e.key = ck

NoEmbedding == <<>>

\* EmbeddingCache.get: the returned embedding, NoEmbedding on a miss or expiry
CacheGetValue(c, key, t) ==
  LET ck == createCacheKey(key)
  IN IF ~CacheHas(c, ck) THEN NoEmbedding
     ELSE IF (t - CacheEntryOf(c, ck).createdAt) > CacheEntryOf(c, ck).ttl THEN NoEmbedding
     ELSE CacheEntryOf(c, ck).embedding

\* EmbeddingCache.get: the cache afterwards (an expired entry is deleted)
CacheGetState(c, key, t) ==
  LET ck == createCacheKey(key)
  IN IF ~CacheHas(c, ck) THEN c
     ELSE IF (t - CacheEntryOf(c, ck).createdAt) > CacheEntryOf(c, ck).ttl
          THEN c \ {CacheEntryOf(c, ck)}
     ELSE c

\* EmbeddingCache.set below maxSize
CacheSet(c, key, embedding, t, ttl) ==
  LET ck == createCacheKey(key)
  IN {e \in c : e.key # ck}
     \cup {[key |-> ck, embedding |-> embedding, createdAt |-> t, ttl |-> ttl]}

\* ----------------------------------------------------------------------
\* Request data: galleries (characterFolders) and their images
\* ----------------------------------------------------------------------
Levels == {"general", "sensitive", "questionable", "explicit"}

\* url 0 stands for an image with neither imageUrl nor thumbnail
Image(id, level, url) == [id |-> id, nsfwLevel |-> level, url |-> url]

\* gallery templates; ids of folder f start at 100 * f
SafeLevel(i) == IF i % 2 = 1 THEN "general" ELSE "sensitive"

GalleryImages(kind, f) ==
  CASE kind = "empty" -> <<>>
    [] kind = "small" ->
         [i \in 1..SmallN |->
            Image(100 * f + i,
                  IF i = 1 THEN "general" ELSE IF i = 2 THEN "explicit" ELSE "questionable",
                  100 * f + i)]
    [] kind = "bigSafe" ->
         [i \in 1..BigN |-> Image(100 * f + i, SafeLevel(i), 100 * f + i)]
    [] kind = "bigNoUrl" ->
         [i \in 1..(BigN + 1) |->
            Image(100 * f + i, SafeLevel(i), IF i = 2 THEN 0 ELSE 100 * f + i)]
    [] kind = "bigMixed" ->
         [i \in 1..(BigN + 2) |->
            Image(100 * f + i,
                  IF i = 3 THEN "explicit" ELSE IF i = 7 THEN "questionable" ELSE SafeLevel(i),
                  100 * f + i)]
    [] kind = "bigExplicit" ->
         [i \in 1..(BigN + 1) |->
            Image(100 * f + i, IF i = 4 THEN "general" ELSE "explicit", 100 * f + i)]

GalleryKinds == {"empty", "small", "bigSafe", "bigNoUrl", "bigMixed", "bigExplicit"}

FolderNames == << <<"R", "e">>, <<"b", "o">> >>

Folder(f, kind) == [name |-> FolderNames[f], images |-> GalleryImages(kind, f)]

\* the characterFolders arrays a request may carry
FolderKindLists ==
  { <<>>, <<"small">>, <<"bigSafe">>,
    <<"empty", "small">>, <<"small", "bigSafe">>, <<"bigSafe", "empty">>,
    <<"bigSafe", "bigSafe">>, <<"bigNoUrl", "bigSafe">>, <<"bigMixed", "small">>,
    <<"bigMixed", "bigSafe">>, <<"bigExplicit", "bigExplicit">> }

FolderLists == { [f \in 1..Len(ks) |-> Folder(f, ks[f])] : ks \in FolderKindLists }

\* the character lists Stage 1 may extract
CharacterLists ==
  { <<>>,
    << <<"r", "e">> >>,
    << <<"R", "E">>, <<"B", "o", "b">> >>,
    << <<"b", "o">>, <<"r", "e">> >>,
    << <<"z">>, <<"e">> >>,
    << <<>>, <<"b", "o">> >>,
    << <<"r", "e", "b", "o">> >> }

\* characterMappings the extension puts into the request body: pairs
\* <<character name, folder name>>
CharacterMappings == { << <<"z">>, <<"b", "o">> >> }

\* ----------------------------------------------------------------------
\* POST, Stage 2: matching and NSFW filtering
\* ----------------------------------------------------------------------
NoChar == <<"-">>

\* the callback of extractedCharacters.find
NameMatches(folderName, charName) ==
  LET folderNameLower == toLowerCase(folderName)
      charNameLower == toLowerCase(charName)
  IN \/ folderNameLower = charNameLower
     \/ includes(folderNameLower, charNameLower)
     \/ includes(charNameLower, folderNameLower)

\* extractedCharacters.find(...): first matching name, NoChar when none
FindMatchedChar(folder, chars) ==
  IF \E i \in 1..Len(chars) : NameMatches(folder.name, chars[i])
  THEN chars[CHOOSE i \in 1..Len(chars) :
               /\ NameMatches(folder.name, chars[i])
               /\ \A j \in 1..(i - 1) : ~NameMatches(folder.name, chars[j])]
  ELSE NoChar

\* matchedChar ? {...folder, matchedCharacterName} : null, then filter(non-null);
\* the empty string is falsy
RECURSIVE MatchFolders(_, _)
MatchFolders(folders, chars) ==
  IF folders = <<>> THEN <<>>
  ELSE LET m == FindMatchedChar(Head(folders), chars)
       IN (IF m = NoChar \/ m = <<>> THEN <<>>
           ELSE << [name |-> Head(folders).name,
                    matchedCharacterName |-> m,
                    images |-> Head(folders).images] >>)
          \o MatchFolders(Tail(folders), chars)

\* mutant: every level at or below the determined one is allowed
allowedLevels_Cumulative(level) ==
  CASE level = "general" -> {"general"}
    [] level = "sensitive" -> {"general", "sensitive"}
    [] level = "questionable" -> {"general", "sensitive", "questionable"}
    [] level = "explicit" -> {"general", "sensitive", "questionable", "explicit"}
    [] OTHER -> {level}

allowedLevels(level) ==
  IF level = "general" \/ level = "sensitive"
  THEN {"general", "sensitive"}
  ELSE {level}

RECURSIVE FilterByLevel(_, _)
FilterByLevel(images, allowed) ==
  IF images = <<>> THEN <<>>
  ELSE (IF Head(images).nsfwLevel \in allowed THEN <<Head(images)>> ELSE <<>>)
       \o FilterByLevel(Tail(images), allowed)

FilterFolders(matched, level) ==
  [i \in 1..Len(matched) |->
     [matched[i] EXCEPT !.images = FilterByLevel(matched[i].images, allowedLevels(level))]]

\* ----------------------------------------------------------------------
\* State
\* ----------------------------------------------------------------------
VARIABLES
  req,        \* the request body: [textOk, hasFolders, characterFolders, characterMappings]
  env,        \* process environment and embedding service behaviour
  cache,      \* the process-wide EmbeddingCache (globalCache)
  now,        \* Date.now() in seconds
  pc,         \* position of POST: start, awaitA, stageC, awaitD, done
  aKind,      \* how the Stage 1 call ended: httpError, threw, unparseable, parsed
  analysis,   \* nsfwAnalysis parsed from the Stage 1 reply
  filtered,   \* filteredCharacterFolders
  tasks,      \* the Promise.all tasks of Stage 2.5, one per filtered folder
  clipFiltered, \* clipFilteredFolders, the folders handed to Stage 3
  prompt,     \* the folders written into the Stage 3 prompt
  dReply,     \* how the Stage 3 reply was read
  response,   \* the NextResponse returned
  calls       \* number of external calls issued

vars == <<req, env, cache, now, pc, aKind, analysis, filtered, tasks, clipFiltered, prompt, dReply,
          response, calls>>

\* State of one EmbeddingCache instance exercised on its own (cache.ts)
VARIABLES
  store,      \* this.cache: the Map's entries in insertion order
  maxSize,    \* this.maxSize
  defaultTTL, \* this.defaultTTL
  clock,      \* Date.now() in seconds
  lastCall,   \* the latest method call: its arguments, its result, the Map before it
  trail       \* what the calls so far amount to (history of touches)

cacheVars == <<store, maxSize, defaultTTL, clock, lastCall, trail>>

\* State of one getEmbedding call of a CLIP client exercised on its own (client.ts)
VARIABLES
  provider,   \* which client class serves the call
  cpc,        \* position of getEmbedding / pollForResult
  attempt,    \* the loop variable of pollForResult
  abortTimer, \* a setTimeout(() => controller.abort()) is pending
  remoteUp,   \* the remote side still answers
  job,        \* the statuses the polls have returned
  result      \* the EmbeddingResponse the call resolved with

clientVars == <<provider, cpc, attempt, abortTimer, remoteUp, job, result>>

\* State of the ClipFilter instances of one process and their cache (filter.ts)
VARIABLES
  heap,        \* the EmbeddingCache objects created so far, each as its Map
  globalCache, \* cache.ts globalCache: 0 for null, else an index into heap
  filterCache, \* this.cache of every ClipFilter constructed, as an index into heap
  lookups,     \* getTextEmbedding / getImageEmbedding calls awaiting the client
  doneLookup,  \* the latest call that returned
  ledger,      \* the latest vector stored per key: key, vector, time, storing filter
  ftime        \* Date.now() in seconds

filterVars == <<heap, globalCache, filterCache, lookups, doneLookup, ledger, ftime>>

\* State of one matchCharacterFolders call (background/folder-matcher.js)
VARIABLES
  mJob,     \* the arguments of the call: characters and mappings
  mpc,      \* "-" no call, "searching" inside Promise.all, "returned"
  finders,  \* one findFolderByName call per character, in input order
  settled,  \* indices of the characters in the order their calls settled
  matched   \* the array the call returned

matcherVars == <<mJob, mpc, finders, settled, matched>>

\* no matchCharacterFolders call is exercised on its own
MatcherIdle ==
  /\ mJob = [characters |-> <<>>, mappings |-> <<>>]
  /\ mpc = "-"
  /\ finders = <<>>
  /\ settled = <<>>
  /\ matched = <<>>

\* State of one call of a similarity.ts function on its own
VARIABLES
  simFn,    \* the function called: "cosine", "dot" or "sort"
  simArgs,  \* the two arguments passed
  simOut    \* what the call produced: nothing yet, a value or an Error

simVars == <<simFn, simArgs, simOut>>

\* no similarity function is exercised on its own
SimIdle ==
  /\ simFn = "-"
  /\ simArgs = <<>>
  /\ simOut = [kind |-> "-"]

\* State of the extension's service worker (background.js)
VARIABLES
  bgStorage,  \* chrome.storage.local: enabled, folderId, folderTagsCache, characterMappings
  parseCache, \* parseCache.cache: the Map's entries in insertion order
  handlers,   \* one record per message received: where its handler stands, what it holds
  changed,    \* storage changes whose onChanged event has not been delivered yet
  clears,     \* number of parseCache.clear() calls so far
  edits,      \* number of storage writes made outside the handlers so far
  clearMessages \* number of CLEAR_CACHE messages received so far

bgVars == <<bgStorage, parseCache, handlers, changed, clears, edits, clearMessages>>

\* the service worker is not exercised
BgIdle ==
  /\ bgStorage = [enabled |-> FALSE]
  /\ parseCache = <<>>
  /\ handlers = <<>>
  /\ changed = <<>>
  /\ clears = 0
  /\ edits = 0
  /\ clearMessages = 0

\* the variables POST does not touch
nonPostVars == <<cacheVars, clientVars, filterVars, matcherVars, simVars, bgVars>>

\* no ClipFilter is exercised on its own
FilterIdle ==
  /\ heap = <<>>
  /\ globalCache = 0
  /\ filterCache = <<>>
  /\ lookups = {}
  /\ doneLookup = [f |-> 0]
  /\ ledger = {}
  /\ ftime = 0

\* no EmbeddingCache is exercised on its own
CacheIdle ==
  /\ store = <<>>
  /\ maxSize = 0
  /\ defaultTTL = 0
  /\ clock = 0
  /\ lastCall = [op |-> "-"]
  /\ trail = [plain |-> FALSE]

\* no client call is exercised on its own
ClientIdle ==
  /\ provider = "-"
  /\ cpc = "-"
  /\ attempt = 0
  /\ abortTimer = FALSE
  /\ remoteUp = FALSE
  /\ job = <<>>
  /\ result = [success |-> FALSE]

\* the variables the cache methods do not touch
nonCacheVars == <<vars, clientVars, filterVars, matcherVars, simVars, bgVars>>

\* the variables a client call does not touch
nonClientVars == <<vars, cacheVars, filterVars, matcherVars, simVars, bgVars>>

\* the variables the ClipFilter lookups do not touch
nonFilterVars == <<vars, cacheVars, clientVars, matcherVars, simVars, bgVars>>

\* the variables the folder matcher does not touch
nonMatcherVars == <<vars, cacheVars, clientVars, filterVars, simVars, bgVars>>

\* the variables the similarity functions do not touch
nonSimVars == <<vars, cacheVars, clientVars, filterVars, matcherVars, bgVars>>

\* the variables the service worker does not touch
nonBgVars == <<vars, cacheVars, clientVars, filterVars, matcherVars, simVars>>

allVars == <<vars, cacheVars, clientVars, filterVars, matcherVars, simVars, bgVars>>

NoAnalysis == [characters |-> <<>>, level |-> "-", clipQuery |-> "", sceneSummary |-> ""]
NoResponse == [success |-> FALSE, status |-> 0, error |-> "", characters |-> <<>>]
NoReply == [kind |-> "-", asReturned |-> FALSE, repaired |-> FALSE, hasList |-> FALSE,
            entries |-> <<>>]

ErrorResponse(status, error) ==
  [success |-> FALSE, status |-> status, error |-> error, characters |-> <<>>]

\* ----------------------------------------------------------------------
\* Environment: CLIP provider configuration and the embedding service
\* ----------------------------------------------------------------------
\* the vector the embedding service returns for an image url
ImgVec(url) ==
  CASE url % 6 = 0 -> <<1, 0>>
    [] url % 6 = 1 -> <<3, 1>>
    [] url % 6 = 2 -> <<1, 1>>
    [] url % 6 = 3 -> <<1, 3>>
    [] url % 6 = 4 -> <<0, 1>>
    [] OTHER -> <<0 - 1, 1>>

AllImageUrls == {100 * f + i : f \in 1..2, i \in 1..(BigN + 2)}

\* provider / api key / urls whose embedding request fails / text vector
Envs ==
  { [provider |-> "local", hasKey |-> FALSE, imgFail |-> {}, qvec |-> <<1, 0>>],
    [provider |-> "local", hasKey |-> FALSE, imgFail |-> {101, 105, 203}, qvec |-> <<1, 2>>],
    [provider |-> "local", hasKey |-> FALSE, imgFail |-> AllImageUrls, qvec |-> <<1, 0>>],
    [provider |-> "openai", hasKey |-> TRUE, imgFail |-> {}, qvec |-> <<1, 2>>],
    [provider |-> "replicate", hasKey |-> FALSE, imgFail |-> {}, qvec |-> <<1, 0>>] }

\* clipEndpoint always has its default, so 'local' is always enabled
clipEnabled(e) ==
  \/ e.provider = "local"
  \/ (e.provider = "replicate" /\ e.hasKey)
  \/ (e.provider = "openai" /\ e.hasKey)

CacheEntry(type, value, embedding, t) ==
  [key |-> createCacheKey([type |-> type, value |-> value]),
   embedding |-> embedding, createdAt |-> t, ttl |-> CacheDefaultTTL]

\* what earlier requests may have left in the global cache
\* (the openai client never returns an image embedding, so none is cached)
WarmCache(e) ==
  { CacheEntry("text", "q", e.qvec, 0) }
  \cup (IF e.provider = "openai" THEN {}
        ELSE { CacheEntry("image", 101, ImgVec(101), 0),
               CacheEntry("image", 102, ImgVec(102), 0) })

\* <<cache, now>>: empty, warm, or warm with every entry past its ttl
InitialCaches(e) ==
  { <<{}, 0>>, <<WarmCache(e), 0>> }
  \cup (IF e.imgFail = {} THEN { <<WarmCache(e), CacheDefaultTTL + 1>> } ELSE {})

\* ----------------------------------------------------------------------
\* filter.ts: ClipFilter.filterImagesBySimilarity as run by one Stage 2.5 task
\* ----------------------------------------------------------------------
MinSimilarity == [n |-> 0, d |-> 1]

Task(folder) ==
  [st |-> "new", idx |-> 0, images |-> folder.images, textEmb |-> NoEmbedding,
   similarities |-> <<>>, out |-> folder.images, success |-> FALSE,
   narrowed |-> FALSE, text |-> "none", fetched |-> 0, failedIds |-> {}]

\* lines 169-179: similarity of one embedded image, pushed when >= minSimilarity
PushSimilarity(task, image, imageEmbedding) ==
  LET similarity == computeCosineSimilarity(task.textEmb, imageEmbedding)
  IN IF ~SimGreater(MinSimilarity, similarity)
     THEN [task EXCEPT !.similarities =
             Append(@, [image |-> image, similarity |-> similarity])]
     ELSE task

\* lines 182-194: sort and Top-K
topImages(similarities) ==
  LET sorted == sortBySimilarity([i \in 1..Len(similarities) |-> similarities[i].image],
                                 [i \in 1..Len(similarities) |-> similarities[i].similarity])
      k == IF Len(sorted) < TopK THEN Len(sorted) ELSE TopK
  IN [i \in 1..k |-> sorted[i].item]

\* mutant: the CLIP result is used only when it holds a full Top-K
TaskResult_NeedsFullTopK(task, success, top) ==
  IF success /\ Len(top) >= TopK
  THEN [task EXCEPT !.st = "done", !.success = TRUE, !.out = top, !.narrowed = TRUE]
  ELSE [task EXCEPT !.st = "done", !.success = success, !.out = task.images]

\* POST lines 358-368: use the CLIP result when it succeeded with at least one image
TaskResult(task, success, top) ==
  IF success /\ Len(top) > 0
  THEN [task EXCEPT !.st = "done", !.success = TRUE, !.out = top, !.narrowed = TRUE]
  ELSE [task EXCEPT !.st = "done", !.success = success, !.out = task.images]

\* the for loop of lines 151-180 from image i up to the next awaited network
\* call, or to the end of the function
RECURSIVE RunImages(_, _, _)
RunImages(task, i, c) ==
  IF i > Len(task.images)
  THEN [task |-> TaskResult(task, TRUE, topImages(task.similarities)), cache |-> c]
  ELSE LET image == task.images[i]
           key == [type |-> "image", value |-> image.url]
           cached == CacheGetValue(c, key, now)
           c1 == CacheGetState(c, key, now)
       IN IF image.url = 0 THEN RunImages(task, i + 1, c)
          ELSE IF cached # NoEmbedding
               THEN RunImages(PushSimilarity(task, image, cached), i + 1,
                              CacheGetState(c1, key, now))
          ELSE IF env.provider = "openai"
               THEN RunImages([task EXCEPT !.failedIds = @ \cup {image.id}], i + 1, c1)
          ELSE [task |-> [task EXCEPT !.st = "awaitImg", !.idx = i, !.fetched = @ + 1],
                cache |-> c1]

\* clipQuery first, sceneSummary when it is empty
clipQueryOf(a) == IF a.clipQuery # "" THEN a.clipQuery ELSE a.sceneSummary

\* the Promise.all callback up to its first awaited network call (after a
\* cache hit the callback resumes in a microtask, before any network reply
\* can be handled, so the hit and what follows it are one step)
StartTask(folder, a, c) ==
  LET task == Task(folder)
      key == [type |-> "text", value |-> clipQueryOf(a)]
      cached == CacheGetValue(c, key, now)
      c1 == CacheGetState(c, key, now)
  IN IF Len(folder.images) <= ClipSkipMax
     THEN [task |-> [task EXCEPT !.st = "done"], cache |-> c]
     ELSE IF cached # NoEmbedding
          THEN RunImages([task EXCEPT !.textEmb = cached, !.text = "hit"], 1, c1)
     ELSE [task |-> [task EXCEPT !.st = "awaitText", !.fetched = @ + 1, !.text = "asked"],
           cache |-> c1]

\* filteredCharacterFolders.map(async ...): the callbacks start in order
RECURSIVE StartAll(_, _, _, _)
StartAll(folders, a, c, acc) ==
  IF folders = <<>> THEN [tasks |-> acc, cache |-> c]
  ELSE LET r == StartTask(Head(folders), a, c)
       IN StartAll(Tail(folders), a, r.cache, Append(acc, r.task))

AllDone(ts) == \A i \in 1..Len(ts) : ts[i].st = "done"

\* clipFilteredFolders once Promise.all has resolved
ClipFolders(folders, ts) ==
  [i \in 1..Len(folders) |-> [folders[i] EXCEPT !.images = ts[i].out]]

\* ----------------------------------------------------------------------
\* Stage 3: the prompt, the reply text and its parsing
\* ----------------------------------------------------------------------
\* mutant: folders without images are left out of the prompt
buildUnifiedPrompt_SkipsEmpty(folders) ==
  LET kept == SelectSeq(folders, LAMBDA f : f.images # <<>>)
  IN [i \in 1..Len(kept) |->
        [character |-> kept[i].matchedCharacterName,
         folder |-> kept[i].name,
         total |-> Len(kept[i].images),
         imageIds |-> [j \in 1..Len(kept[i].images) |-> kept[i].images[j].id]]]

\* buildUnifiedPrompt: every folder it is given is listed, with its image ids
buildUnifiedPrompt(folders) ==
  [i \in 1..Len(folders) |->
     [character |-> folders[i].matchedCharacterName,
      folder |-> folders[i].name,
      total |-> Len(folders[i].images),
      imageIds |-> [j \in 1..Len(folders[i].images) |-> folders[i].images[j].id]]]

\* one element of the reply's "characters" array
Entry(name, folderName, imageId, status) ==
  [name |-> name, folderName |-> folderName, selectedImageId |-> imageId, status |-> status]

NoEntry == Entry(<<>>, <<>>, 0, "-")

\* The reply text as a token sequence.  lb "{", key "\"characters\":", lsq "[",
\* obj a complete {...} element, part a cut-off element, comma, rsq "]", rb "}".
Tok(t) == [t |-> t, v |-> NoEntry]
Obj(e) == [t |-> "obj", v |-> e]

RECURSIVE JoinObjs(_)
JoinObjs(entries) ==
  IF entries = <<>> THEN <<>>
  ELSE IF Len(entries) = 1 THEN <<Obj(entries[1])>>
  ELSE <<Obj(Head(entries)), Tok("comma")>> \o JoinObjs(Tail(entries))

\* the text of a well-formed reply with this characters array
Serialize(entries) ==
  <<Tok("lb"), Tok("key"), Tok("lsq")>> \o JoinObjs(entries) \o <<Tok("rsq"), Tok("rb")>>

\* obj (comma obj)*
RECURSIVE IsObjList(_)
IsObjList(toks) ==
  IF toks = <<>> THEN FALSE
  ELSE IF Head(toks).t # "obj" THEN FALSE
  ELSE IF Len(toks) = 1 THEN TRUE
  ELSE Len(toks) >= 3 /\ toks[2].t = "comma" /\ IsObjList(SubSeq(toks, 3, Len(toks)))

ObjsOf(toks) == LET objs == SelectSeq(toks, LAMBDA x : x.t = "obj")
                IN [i \in 1..Len(objs) |-> objs[i].v]

\* JSON.parse: ok = FALSE when it throws
JSONParse(toks) ==
  LET n == Len(toks)
      fail == [ok |-> FALSE, hasCharacters |-> FALSE, isArray |-> FALSE, characters |-> <<>>]
  IN IF n = 2 /\ toks[1].t = "lb" /\ toks[2].t = "rb"
     THEN [ok |-> TRUE, hasCharacters |-> FALSE, isArray |-> FALSE, characters |-> <<>>]
     ELSE IF n = 4 /\ toks[1].t = "lb" /\ toks[2].t = "key" /\ toks[3].t = "obj"
             /\ toks[4].t = "rb"
     THEN [ok |-> TRUE, hasCharacters |-> TRUE, isArray |-> FALSE, characters |-> <<>>]
     ELSE IF n >= 5 /\ toks[1].t = "lb" /\ toks[2].t = "key" /\ toks[3].t = "lsq"
             /\ toks[n - 1].t = "rsq" /\ toks[n].t = "rb"
             /\ (n = 5 \/ IsObjList(SubSeq(toks, 4, n - 2)))
     THEN [ok |-> TRUE, hasCharacters |-> TRUE, isArray |-> TRUE,
           characters |-> ObjsOf(SubSeq(toks, 4, n - 2))]
     ELSE fail

\* the token's text ends with "}"
EndsWithBrace(tok) == tok.t \in {"rb", "obj"}

\* content.endsWith('}')
endsWithBrace(toks) == toks # <<>> /\ EndsWithBrace(toks[Len(toks)])

\* token holding the last "}" of the text, 0 when lastIndexOf('}') <= 0
\* (a "}" at character index 0 is a first token "}")
lastCompleteObject(toks) ==
  LET idx == {i \in 1..Len(toks) : EndsWithBrace(toks[i]) /\ ~(i = 1 /\ toks[i].t = "rb")}
  IN IF idx = {} THEN 0 ELSE CHOOSE i \in idx : \A j \in idx : j <= i

\* lines 442-454: the JSON recovery attempt
fixedContent(content) ==
  IF endsWithBrace(content) THEN content
  ELSE LET last == lastCompleteObject(content)
       IN IF last = 0 THEN content
          ELSE LET cut == SubSeq(content, 1, last)
                   closed == IF \E i \in 1..Len(cut) : cut[i].t = "rsq"
                             THEN cut ELSE Append(cut, Tok("rsq"))
               IN IF endsWithBrace(closed) THEN closed ELSE Append(closed, Tok("rb"))

\* mutant: only the matched entries of the reply are returned
ReadReply_OnlyMatched(content) ==
  LET first == JSONParse(content)
      second == JSONParse(fixedContent(content))
      parsed == IF first.ok THEN first ELSE second
  IN IF ~parsed.ok
     THEN ErrorResponse(500, "Failed to parse LLM response")
     ELSE IF ~parsed.hasCharacters \/ ~parsed.isArray
     THEN ErrorResponse(500, "Invalid response structure: missing characters array")
     ELSE [success |-> TRUE, status |-> 200, error |-> "",
           characters |-> SelectSeq(parsed.characters, LAMBDA e : e.status = "matched")]

\* mutant: the characters array is not validated
ReadReply_NoValidation(content) ==
  LET first == JSONParse(content)
      second == JSONParse(fixedContent(content))
      parsed == IF first.ok THEN first ELSE second
  IN IF ~parsed.ok
     THEN ErrorResponse(500, "Failed to parse LLM response")
     ELSE [success |-> TRUE, status |-> 200, error |-> "", characters |-> parsed.characters]

\* lines 435-496: from the reply text to the response
ReadReply(content) ==
  LET first == JSONParse(content)
      second == JSONParse(fixedContent(content))
      parsed == IF first.ok THEN first ELSE second
  IN IF ~parsed.ok
     THEN ErrorResponse(500, "Failed to parse LLM response")
     ELSE IF ~parsed.hasCharacters \/ ~parsed.isArray
     THEN ErrorResponse(500, "Invalid response structure: missing characters array")
     ELSE [success |-> TRUE, status |-> 200, error |-> "", characters |-> parsed.characters]

\* ----------------------------------------------------------------------
\* The replies the Stage 3 collaborator may give to a prompt
\* ----------------------------------------------------------------------
\* one entry per listed folder: its first image, unmatched when it has none
FaithfulEntries(p) ==
  [i \in 1..Len(p) |->
     IF p[i].total = 0
     THEN Entry(p[i].character, p[i].folder, 0, "unmatched")
     ELSE Entry(p[i].character, p[i].folder, p[i].imageIds[1], "matched")]

EntryLists(p) ==
  LET f == FaithfulEntries(p)
  IN { f,
       <<>>,
       IF f = <<>> THEN <<Entry(<<"z">>, <<"z">>, 999, "matched")>> ELSE Tail(f),
       [i \in 1..Len(f) |-> f[Len(f) + 1 - i]],
       [i \in 1..Len(f) |-> [f[i] EXCEPT !.selectedImageId = 999,
                                         !.status = "matched"]] }

\* a text cut off after k tokens, possibly inside the next element
Truncations(doc) ==
  {SubSeq(doc, 1, k) : k \in 1..(Len(doc) - 1)}
  \cup {Append(SubSeq(doc, 1, k), Tok("part")) :
          k \in {j \in 1..(Len(doc) - 1) : doc[j + 1].t = "obj"}}

ReplyContents(p) ==
  {Serialize(l) : l \in EntryLists(p)}
  \cup Truncations(Serialize(FaithfulEntries(p)))
  \cup { <<>>,
         <<Tok("lb"), Tok("rb")>>,
         <<Tok("rb")>>,
         <<Tok("lb"), Tok("key"), Obj(NoEntry), Tok("rb")>>,
         <<Tok("lb"), Tok("key"), Tok("lsq"), Obj(NoEntry), Tok("rsq"), Tok("part"), Tok("rb")>> }

\* ----------------------------------------------------------------------
\* The replies the Stage 1 collaborator may give
\* ----------------------------------------------------------------------
Analyses ==
  { [characters |-> cs, level |-> l, clipQuery |-> q[1], sceneSummary |-> q[2]] :
      cs \in CharacterLists, l \in Levels \cup {""},
      q \in {<<"q", "s">>, <<"", "s">>, <<"", "">>} }

StageAReplies ==
  { [kind |-> k, analysis |-> NoAnalysis] : k \in {"httpError", "threw", "unparseable"} }
  \cup { [kind |-> "parsed", analysis |-> a] : a \in Analyses }

\* nsfwAnalysis.appropriateNsfwLevel || 'general'
appropriateNsfwLevel(a) == IF a.level = "" THEN "general" ELSE a.level

\* ----------------------------------------------------------------------
\* Init
\* ----------------------------------------------------------------------
Requests ==
  { [textOk |-> FALSE, hasFolders |-> TRUE, characterFolders |-> <<>>,
     characterMappings |-> CharacterMappings],
    [textOk |-> TRUE, hasFolders |-> FALSE, characterFolders |-> <<>>,
     characterMappings |-> CharacterMappings] }
  \cup { [textOk |-> TRUE, hasFolders |-> TRUE, characterFolders |-> fl,
          characterMappings |-> CharacterMappings] : fl \in FolderLists }

NoCalls == [stageA |-> 0, stageD |-> 0, text |-> 0, image |-> 0]

Init ==
  /\ req \in Requests
  /\ env \in Envs
  /\ \E cn \in InitialCaches(env) : cache = cn[1] /\ now = cn[2]
  /\ pc = "start"
  /\ aKind = "-"
  /\ analysis = NoAnalysis
  /\ filtered = <<>>
  /\ tasks = <<>>
  /\ clipFiltered = <<>>
  /\ prompt = <<>>
  /\ dReply = NoReply
  /\ response = NoResponse
  /\ calls = NoCalls
  /\ CacheIdle
  /\ ClientIdle
  /\ FilterIdle
  /\ MatcherIdle
  /\ SimIdle
  /\ BgIdle

\* ----------------------------------------------------------------------
\* POST lines 43-221: checks, then the Stage 1 call
\* ----------------------------------------------------------------------
Finish(r) == pc' = "done" /\ response' = r

Receive ==
  /\ pc = "start"
  /\ \E isAuthenticated \in BOOLEAN, allowed \in BOOLEAN, apiKey \in BOOLEAN :
       IF ~isAuthenticated /\ ~allowed
       THEN Finish(ErrorResponse(429, "Rate limit exceeded")) /\ calls' = calls
       ELSE IF ~req.textOk
       THEN Finish(ErrorResponse(400, "Invalid request: text is required")) /\ calls' = calls
       ELSE IF ~req.hasFolders
       THEN Finish(ErrorResponse(400, "Invalid request: characterFolders is required"))
            /\ calls' = calls
       ELSE IF ~apiKey
       THEN Finish(ErrorResponse(500, "Server configuration error")) /\ calls' = calls
       ELSE /\ pc' = "awaitA"
            /\ calls' = [calls EXCEPT !.stageA = @ + 1]
            /\ response' = response
  /\ UNCHANGED <<req, env, cache, now, aKind, analysis, filtered, tasks, clipFiltered, prompt,
                 dReply>>
  /\ UNCHANGED nonPostVars

\* ----------------------------------------------------------------------
\* Stage 3 is called once Promise.all has resolved
\* ----------------------------------------------------------------------
\* mutant: Promise.race / Promise.any instead of Promise.all
PromiseAnyResolved(ts) == ts = <<>> \/ \E i \in 1..Len(ts) : ts[i].st = "done"

PromiseAllResolved(ts) == AllDone(ts)

\* the state after a Stage 2.5 step: still waiting, or the Stage 3 fetch issued
AfterStageC(folders, ts, c, cl) ==
  /\ tasks' = ts
  /\ cache' = c
  /\ IF PromiseAllResolved(ts)
     THEN /\ clipFiltered' = ClipFolders(folders, ts)
          /\ prompt' = buildUnifiedPrompt(ClipFolders(folders, ts))
          /\ calls' = [cl EXCEPT !.stageD = @ + 1]
          /\ pc' = "awaitD"
     ELSE /\ clipFiltered' = clipFiltered
          /\ prompt' = prompt
          /\ calls' = cl
          /\ pc' = "stageC"

\* number of embedding requests a batch of freshly started tasks issued
TextAsked(ts) == Cardinality({i \in 1..Len(ts) : ts[i].st = "awaitText"})
ImageAsked(ts) == Cardinality({i \in 1..Len(ts) : ts[i].st = "awaitImg"})

\* ----------------------------------------------------------------------
\* POST lines 223-420: the Stage 1 reply, Stage 2, and the start of Stage 2.5
\* (or, when CLIP is off, the Stage 3 call)
\* ----------------------------------------------------------------------
\* mutant: an unparseable Stage 1 content is not treated as fatal
Stage1Fatal_IgnoresParseError(kind) == kind \in {"httpError", "threw"}

\* lines 223-244: the Stage 1 outcomes that end the request
Stage1Fatal(kind) == kind \in {"httpError", "threw", "unparseable"}

Stage1Error(kind) ==
  IF kind = "httpError" THEN ErrorResponse(502, "OpenRouter API error (Stage 1)")
  ELSE IF kind = "unparseable" THEN ErrorResponse(500, "Failed to parse NSFW analysis")
  ELSE ErrorResponse(500, "Internal server error")

StageAResponse ==
  /\ pc = "awaitA"
  /\ \E reply \in StageAReplies :
       /\ aKind' = reply.kind
       /\ IF Stage1Fatal(reply.kind)
          THEN /\ Finish(Stage1Error(reply.kind))
               /\ UNCHANGED <<cache, analysis, filtered, tasks, clipFiltered, prompt, calls>>
          ELSE LET a == reply.analysis
                   matchedFolders == MatchFolders(req.characterFolders, a.characters)
                   folders == FilterFolders(matchedFolders, appropriateNsfwLevel(a))
               IN /\ analysis' = a
                  /\ filtered' = folders
                  /\ response' = response
                  /\ IF clipEnabled(env) /\ clipQueryOf(a) # ""
                     THEN LET started == StartAll(folders, a, cache, <<>>)
                          IN AfterStageC(folders, started.tasks, started.cache,
                                         [calls EXCEPT !.text = @ + TextAsked(started.tasks),
                                                       !.image = @ + ImageAsked(started.tasks)])
                     ELSE /\ tasks' = <<>>
                          /\ cache' = cache
                          /\ clipFiltered' = folders
                          /\ prompt' = buildUnifiedPrompt(folders)
                          /\ calls' = [calls EXCEPT !.stageD = @ + 1]
                          /\ pc' = "awaitD"
  /\ UNCHANGED <<req, env, now, dReply>>
  /\ UNCHANGED nonPostVars

\* ----------------------------------------------------------------------
\* filter.ts lines 66-78 and on: the reply to a text embedding request
\* ----------------------------------------------------------------------
TextEmbeddingResponse(t) ==
  /\ pc = "stageC"
  /\ tasks[t].st = "awaitText"
  /\ \E ok \in BOOLEAN :
       LET key == [type |-> "text", value |-> clipQueryOf(analysis)]
           c1 == CacheSet(cache, key, env.qvec, now, CacheDefaultTTL)
           r == IF ok
                THEN RunImages([tasks[t] EXCEPT !.textEmb = env.qvec, !.text = "fetched"], 1, c1)
                ELSE [task |-> TaskResult([tasks[t] EXCEPT !.text = "failed"], FALSE, <<>>),
                      cache |-> cache]
       IN AfterStageC(filtered, [tasks EXCEPT ![t] = r.task], r.cache,
                      [calls EXCEPT !.image = @ + (IF r.task.st = "awaitImg" THEN 1 ELSE 0)])
  /\ UNCHANGED <<req, env, now, aKind, analysis, filtered, dReply, response>>
  /\ UNCHANGED nonPostVars

\* ----------------------------------------------------------------------
\* filter.ts lines 95-110, 160-180: the reply to an image embedding request
\* ----------------------------------------------------------------------
ImageEmbeddingResponse(t) ==
  /\ pc = "stageC"
  /\ tasks[t].st = "awaitImg"
  /\ LET task == tasks[t]
         image == task.images[task.idx]
         key == [type |-> "image", value |-> image.url]
         ok == image.url \notin env.imgFail
         c1 == CacheSet(cache, key, ImgVec(image.url), now, CacheDefaultTTL)
         c2 == CacheGetState(c1, key, now)
         r == IF ok
              THEN RunImages(PushSimilarity(task, image, ImgVec(image.url)), task.idx + 1, c2)
              ELSE RunImages([task EXCEPT !.failedIds = @ \cup {image.id}], task.idx + 1, cache)
     IN AfterStageC(filtered, [tasks EXCEPT ![t] = r.task], r.cache,
                    [calls EXCEPT !.image = @ + (IF r.task.st = "awaitImg" THEN 1 ELSE 0)])
  /\ UNCHANGED <<req, env, now, aKind, analysis, filtered, dReply, response>>
  /\ UNCHANGED nonPostVars

\* ----------------------------------------------------------------------
\* POST lines 422-503: the Stage 3 reply
\* ----------------------------------------------------------------------
StageDResponse ==
  /\ pc = "awaitD"
  /\ \/ /\ Finish(ErrorResponse(502, "OpenRouter API error"))
        /\ dReply' = [NoReply EXCEPT !.kind = "httpError"]
     \/ /\ Finish(ErrorResponse(500, "Internal server error"))
        /\ dReply' = [NoReply EXCEPT !.kind = "threw"]
     \/ \E raw \in ReplyContents(prompt) :
          LET content == IF raw = <<>> THEN <<Tok("lb"), Tok("rb")>> ELSE raw
              first == JSONParse(content)
              fixed == JSONParse(fixedContent(content))
          IN /\ Finish(ReadReply(content))
             /\ dReply' = [kind |-> "content",
                           entries |-> ObjsOf(raw),
                           asReturned |-> first.ok,
                           repaired |-> ~first.ok /\ fixed.ok,
                           hasList |-> IF first.ok THEN first.hasCharacters /\ first.isArray
                                       ELSE fixed.ok /\ fixed.hasCharacters /\ fixed.isArray]
  /\ UNCHANGED <<req, env, cache, now, aKind, analysis, filtered, tasks, clipFiltered, prompt,
                 calls>>
  /\ UNCHANGED nonPostVars

Next ==
  \/ Receive
  \/ StageAResponse
  \/ \E t \in 1..Len(tasks) : TextEmbeddingResponse(t)
  \/ \E t \in 1..Len(tasks) : ImageEmbeddingResponse(t)
  \/ StageDResponse

Spec == Init /\ [][Next]_vars

\* the eviction branch of EmbeddingCache.set (size >= maxSize) is out of reach
CacheBelowMaxSize == Cardinality(cache) < CacheMaxSize

\* ======================================================================
\* Properties
\* ======================================================================
ImageIds(images) == {images[j].id : j \in 1..Len(images)}

StageDInvoked == calls.stageD > 0

\* the folder of the request that filtered[i] was matched to
OriginalImages(i) ==
  LET f == CHOOSE g \in 1..Len(req.characterFolders) :
             req.characterFolders[g].name = filtered[i].name
  IN req.characterFolders[f].images

\* the allowed set the specification gives for a determined level
SpecAllowed(level) ==
  CASE level \in {"general", "sensitive"} -> {"general", "sensitive"}
    [] level = "questionable" -> {"questionable"}
    [] level = "explicit" -> {"explicit"}

\* C1: every image in a candidate set handed to Stage D has a sensitivity
\* level inside the allowed set of the level determined in Stage A, whether
\* the gallery was narrowed, skipped or fell back.
C1_CandidatesAllowed ==
  StageDInvoked =>
    \A i \in 1..Len(clipFiltered) : \A j \in 1..Len(clipFiltered[i].images) :
       clipFiltered[i].images[j].nsfwLevel \in SpecAllowed(appropriateNsfwLevel(analysis))

\* a narrowed gallery from which the level filter had removed images
C1_Witness ==
  /\ StageDInvoked
  /\ \E i \in 1..Len(tasks) :
       /\ tasks[i].narrowed
       /\ Len(filtered[i].images) < Len(OriginalImages(i))
       /\ Len(clipFiltered[i].images) = TopK

\* the unmatched entities of the request
Unmatched(name) == \A i \in 1..Len(filtered) : filtered[i].matchedCharacterName # name

IsPrefix(a, b) == Len(a) <= Len(b) /\ a = SubSeq(b, 1, Len(a))

SimOf(t, image) == computeCosineSimilarity(tasks[t].textEmb, ImgVec(image.url))

AllEmbedded(t) ==
  /\ tasks[t].text \in {"hit", "fetched"}
  /\ tasks[t].failedIds = {}
  /\ \A j \in 1..Len(filtered[t].images) : filtered[t].images[j].url # 0

\* C3: with the query embedding and every image embedding obtained, a gallery
\* of n > 10 filtered images reaches Stage D with exactly 10 images and no
\* dropped image has a strictly higher similarity than a kept one; a gallery
\* of n <= 10 images reaches Stage D unchanged with no embedding fetched.
C3_TopTen ==
  StageDInvoked =>
    \A t \in 1..Len(filtered) :
       LET n == Len(filtered[t].images)
           out == clipFiltered[t].images
       IN /\ (n <= 10 =>
                /\ out = filtered[t].images
                /\ (tasks # <<>> => tasks[t].fetched = 0))
          /\ (n > 10 /\ tasks # <<>> /\ AllEmbedded(t) =>
                /\ Len(out) = 10
                /\ ImageIds(out) \subseteq ImageIds(filtered[t].images)
                /\ \A k \in 1..Len(out) : \A d \in 1..n :
                     filtered[t].images[d].id \notin ImageIds(out)
                       => ~SimGreater(SimOf(t, filtered[t].images[d]), SimOf(t, out[k])))

\* a narrowed gallery whose dropped image scored strictly below a kept one,
\* next to a gallery that skipped narrowing
C3_Witness ==
  /\ StageDInvoked
  /\ \E t \in 1..Len(tasks) :
       /\ Len(filtered[t].images) > 10
       /\ AllEmbedded(t)
       /\ \E k \in 1..Len(clipFiltered[t].images) : \E d \in 1..Len(filtered[t].images) :
            /\ filtered[t].images[d].id \notin ImageIds(clipFiltered[t].images)
            /\ SimGreater(SimOf(t, clipFiltered[t].images[k]), SimOf(t, filtered[t].images[d]))
  /\ \E t \in 1..Len(tasks) :
       /\ Len(filtered[t].images) <= 10
       /\ Len(filtered[t].images) > 0

\* C4 as claimed: within one request the embedding service is asked for the
\* query text embedding at most once.
C4_TextAskedOnce == calls.text <= 1

TextFailed == \E t \in 1..Len(tasks) : tasks[t].text = "failed"

\* C5 as claimed: if obtaining the query text embedding fails, no gallery of
\* the request is narrowed and the request still proceeds to Stage D.
C5_TextFailureDegradesAll ==
  (TextFailed /\ pc # "stageC") =>
     /\ StageDInvoked
     /\ \A t \in 1..Len(tasks) : clipFiltered[t].images = filtered[t].images

QueryObtained(t) == tasks[t].text \in {"hit", "fetched"}

\* C6 as claimed, for the provider whose image requests reach the embedding
\* service: in a gallery of more than 10 filtered images whose query
\* embedding was obtained, an image whose embedding fetch failed is never
\* among the candidates handed to Stage D.
C6_FailedNeverCandidate ==
  (StageDInvoked /\ env.provider = "local") =>
    \A t \in 1..Len(tasks) :
       (Len(filtered[t].images) > 10 /\ QueryObtained(t)) =>
          tasks[t].failedIds \cap ImageIds(clipFiltered[t].images) = {}

\* C6 amended: such an image is never among the candidates when the ranking
\* of the gallery yields at least one image; when it yields none (every
\* image failed) the gallery falls back to its whole filtered list.  The
\* request reaches Stage D either way.
C6_FailedDroppedOrFallback ==
  (pc # "stageC" /\ aKind = "parsed") =>
    /\ StageDInvoked
    /\ \A t \in 1..Len(tasks) :
         (Len(filtered[t].images) > 10 /\ QueryObtained(t)) =>
            IF tasks[t].similarities # <<>>
            THEN /\ tasks[t].failedIds \cap ImageIds(clipFiltered[t].images) = {}
                 /\ clipFiltered[t].images = topImages(tasks[t].similarities)
            ELSE clipFiltered[t].images = filtered[t].images

\* some fetches failed, the remaining images were ranked and handed on
C6_Witness ==
  /\ StageDInvoked
  /\ \E t \in 1..Len(tasks) :
       /\ Len(filtered[t].images) > 10
       /\ tasks[t].text = "fetched"
       /\ tasks[t].failedIds # {}
       /\ tasks[t].similarities # <<>>
       /\ Len(clipFiltered[t].images) < TopK

StageDFailed == dReply.kind \in {"httpError", "threw"}

C8_StageAFailureIsFatal ==
  aKind \in {"httpError", "unparseable"} =>
    /\ pc = "done"
    /\ ~response.success
    /\ response.status >= 400
    /\ response.characters = <<>>
    /\ calls = [NoCalls EXCEPT !.stageA = 1]
    /\ tasks = <<>>

C8_Witness ==
  /\ aKind = "unparseable"
  /\ pc = "done"
  /\ Len(req.characterFolders) = 2

\* C9: Stage D is invoked only after Stage A returned successfully and every
\* Stage C task has finished; Stage A and Stage D are invoked at most once;
\* embeddings are requested only after Stage A succeeded.
C9_StageOrder ==
  /\ calls.stageA <= 1
  /\ calls.stageD <= 1
  /\ (StageDInvoked => (aKind = "parsed" /\ AllDone(tasks)))
  /\ (calls.text + calls.image > 0 => (aKind = "parsed" /\ calls.stageA = 1))
  /\ (pc = "stageC" => ~StageDInvoked)

\* Stage D invoked after two gallery tasks that each used the embedding service
C9_Witness ==
  /\ StageDInvoked
  /\ Len(tasks) = 2
  /\ \A t \in 1..2 : tasks[t].fetched > 1

\* C10 as claimed: a gallery with zero candidate images after Stage C is not
\* part of the request sent to Stage D.
C10_EmptyNotSent ==
  StageDInvoked =>
    \A i \in 1..Len(clipFiltered) :
       clipFiltered[i].images = <<>> =>
          \A k \in 1..Len(prompt) : prompt[k].folder # clipFiltered[i].name

\* C10 amended: every matched gallery, also one with zero candidate images,
\* is part of the request sent to Stage D (listed with zero images), and the
\* orchestrator adds no entry of its own to the reply's list.
C10_EmptySentToStageD ==
  StageDInvoked =>
    /\ Len(prompt) = Len(clipFiltered)
    /\ \A i \in 1..Len(clipFiltered) :
         /\ prompt[i].folder = clipFiltered[i].name
         /\ prompt[i].character = clipFiltered[i].matchedCharacterName
         /\ prompt[i].total = Len(clipFiltered[i].images)
    /\ (response.success => SeqRange(response.characters) \subseteq SeqRange(dReply.entries))

\* a gallery without candidates was sent and the reply came back as a success
C10_Witness ==
  /\ response.success
  /\ \E i \in 1..Len(clipFiltered) :
       /\ clipFiltered[i].images = <<>>
       /\ prompt[i].total = 0
       /\ \E k \in 1..Len(response.characters) :
            response.characters[k].folderName = clipFiltered[i].name

\* Stage 2 has run: the Stage 1 reply was parsed and the folders were matched
StageBDone == aKind = "parsed"

\* C11: an extracted name that characterMappings maps to folder name T is
\* paired with the folder named T of the request, also when the extracted
\* name and T share no substring.
C11_AliasPaired ==
  StageBDone =>
    \A i \in 1..Len(analysis.characters) : \A m \in req.characterMappings :
      \A g \in 1..Len(req.characterFolders) :
        (m[1] = analysis.characters[i] /\ req.characterFolders[g].name = m[2])
          => \E k \in 1..Len(filtered) :
                /\ filtered[k].name = m[2]
                /\ filtered[k].matchedCharacterName = analysis.characters[i]

\* C12: every extracted name is paired with at most one folder, so the Stage 3
\* prompt never lists two folders for the same character.
C12_OneGalleryPerEntity ==
  StageDInvoked =>
    \A i, j \in 1..Len(prompt) :
      prompt[i].character = prompt[j].character => i = j

\* ======================================================================
\* cache.ts: one EmbeddingCache exercised on its own.  Here the Map is held
\* as the sequence of its entries in insertion order, as a JavaScript Map
\* iterates them.
\* ======================================================================
MaxCapacity == 3
MaxKeys == 4
MaxClock == 2

\* constructor defaults: options.maxSize || 1000, options.defaultTTL || 3600
EcDefaultMaxSize == 1000
EcDefaultTTL == 3600

\* Map.prototype.keys / has / get / delete / set
MapKeys(m) == {m[i].key : i \in 1..Len(m)}

MapHas(m, ck) == \E i \in 1..Len(m) : m[i].key = ck

MapGet(m, ck) == m[CHOOSE i \in 1..Len(m) : m[i].key = ck]

MapDelete(m, ck) == SelectSeq(m, LAMBDA e : e.key # ck)

\* Map.set keeps the position of a key that is present and appends a new key
MapSet_AlwaysAppend(m, ck, entry) == Append(m, entry)

MapSet(m, ck, entry) ==
  IF MapHas(m, ck)
  THEN [i \in 1..Len(m) |-> IF m[i].key = ck THEN entry ELSE m[i]]
  ELSE Append(m, entry)

\* mutant: an entry expires as soon as its age reaches its ttl
Expired_AtTTL(entry, t) == (t - entry.createdAt) >= entry.ttl

\* age > entry.ttl
Expired(entry, t) == (t - entry.createdAt) > entry.ttl

\* mutant: a hit leaves the entry where it is in the Map
EcGet_NoPromote(m, key, t) ==
  LET ck == createCacheKey(key)
  IN IF ~MapHas(m, ck) THEN [map |-> m, value |-> NoEmbedding]
     ELSE LET entry == MapGet(m, ck)
          IN IF Expired(entry, t)
             THEN [map |-> MapDelete(m, ck), value |-> NoEmbedding]
             ELSE [map |-> m, value |-> entry.embedding]

\* EmbeddingCache.get: the Map afterwards and the value returned (NoEmbedding
\* stands for null)
EcGet(m, key, t) ==
  LET ck == createCacheKey(key)
  IN IF ~MapHas(m, ck) THEN [map |-> m, value |-> NoEmbedding]
     ELSE LET entry == MapGet(m, ck)
          IN IF Expired(entry, t)
             THEN [map |-> MapDelete(m, ck), value |-> NoEmbedding]
             ELSE [map |-> MapSet(MapDelete(m, ck), ck, entry), value |-> entry.embedding]

\* mutant: the newest key is the one removed
FirstKey_Newest(m) == m[Len(m)].key

\* this.cache.keys().next().value
FirstKey(m) == m[1].key

\* mutant: eviction starts only above maxSize
AtMaxSize_Over(m, max) == Len(m) > max

\* this.cache.size >= this.maxSize
AtMaxSize(m, max) == Len(m) >= max

\* EmbeddingCache.set; ttl is <<>> when the argument is left out
EcSet(m, key, embedding, ttl, t, max, dTTL) ==
  LET ck == createCacheKey(key)
      kept == IF AtMaxSize(m, max) /\ m # <<>> THEN MapDelete(m, FirstKey(m)) ELSE m
      entry == [key |-> ck, embedding |-> embedding, createdAt |-> t,
                ttl |-> IF ttl = <<>> THEN dTTL ELSE ttl[1]]
  IN MapSet(kept, ck, entry)

\* EmbeddingCache.delete, clear, size
EcDelete(m, key) == MapDelete(m, createCacheKey(key))

EcClear(m) == <<>>

EcSize(m) == Len(m)

\* constructor(options): 0 stands for an option that is left out
NewEmbeddingCache(options) ==
  [maxSize |-> IF options.maxSize = 0 THEN EcDefaultMaxSize ELSE options.maxSize,
   defaultTTL |-> IF options.defaultTTL = 0 THEN EcDefaultTTL ELSE options.defaultTTL]

\* the inputs of the calls when eviction is exercised: small capacities, and
\* every call made within the default TTL of the entries
EcOptions == [maxSize : 1..MaxCapacity, defaultTTL : {0}]

EcKeys ==
  {[type |-> "text", value |-> "q"]}
  \cup {[type |-> "image", value |-> 100 + u] : u \in 1..(MaxKeys - 1)}

EcEmbeddings == {<<1, 0>>}

EcTTLs == {<<>>}

\* the inputs of the calls when expiry is exercised: default capacity, short
\* TTLs (given to the constructor or to set), and time passing between calls
TtlOptions == [maxSize : {0}, defaultTTL : {0, 1}]

TtlKeys == {[type |-> "text", value |-> "q"], [type |-> "image", value |-> 101]}

TtlEmbeddings == {<<1, 0>>, <<0, 1>>}

TtlTTLs == {<<>>, <<0>>}

\* the history kept alongside the cache:
\*   plain       only get calls and set calls on absent keys were made
\*   touch       the keys stored, by their latest insertion or get hit
\*   refreshed   the latest set on a present key, while only sets of absent
\*               keys followed it: that key and the other keys still stored
\*   got         the latest get hit, while only sets of other absent keys
\*               followed it: that key and the number of those sets
\*   inserts     the keys set so far, while every call was a set of a key
\*               not set before
\*   expired     keys whose entry a get found expired and that were not set since
NewTrail ==
  [plain |-> TRUE, touch |-> <<>>, refreshed |-> <<>>, got |-> <<>>,
   inserts |-> <<>>, onlyInserts |-> TRUE, expired |-> {}]

NoCall == [op |-> "new"]

Without(keys, ck) == SelectSeq(keys, LAMBDA k : k # ck)

\* no request is being served
PostIdle ==
  /\ req = [textOk |-> FALSE, hasFolders |-> FALSE, characterFolders |-> <<>>,
            characterMappings |-> {}]
  /\ env = [provider |-> "-"]
  /\ cache = {}
  /\ now = 0
  /\ pc = "-"
  /\ aKind = "-"
  /\ analysis = NoAnalysis
  /\ filtered = <<>>
  /\ tasks = <<>>
  /\ clipFiltered = <<>>
  /\ prompt = <<>>
  /\ dReply = NoReply
  /\ response = NoResponse
  /\ calls = NoCalls

NewCache(options) ==
  /\ maxSize = NewEmbeddingCache(options).maxSize
  /\ defaultTTL = NewEmbeddingCache(options).defaultTTL
  /\ store = <<>>
  /\ clock = 0
  /\ lastCall = NoCall
  /\ trail = NewTrail
  /\ PostIdle
  /\ ClientIdle
  /\ FilterIdle
  /\ MatcherIdle
  /\ SimIdle
  /\ BgIdle

CacheInit == \E options \in EcOptions : NewCache(options)

TtlInit == \E options \in TtlOptions : NewCache(options)

Get(key) ==
  /\ LET ck == createCacheKey(key)
         present == MapHas(store, ck)
         r == EcGet(store, key, clock)
         hit == r.value # NoEmbedding
     IN /\ store' = r.map
        /\ lastCall' = [op |-> "get", key |-> ck, at |-> clock, before |-> store,
                        value |-> r.value, trail |-> trail]
        /\ trail' = [plain |-> trail.plain,
                     touch |-> IF hit THEN Append(Without(trail.touch, ck), ck)
                               ELSE Without(trail.touch, ck),
                     refreshed |-> <<>>,
                     got |-> IF hit THEN <<[key |-> ck, inserted |-> 0]>> ELSE <<>>,
                     inserts |-> <<>>,
                     onlyInserts |-> FALSE,
                     expired |-> IF present /\ ~hit THEN trail.expired \cup {ck}
                                 ELSE trail.expired]
  /\ UNCHANGED <<maxSize, defaultTTL, clock>>
  /\ UNCHANGED nonCacheVars

Set(key, embedding, ttl) ==
  /\ LET ck == createCacheKey(key)
         present == MapHas(store, ck)
         after == EcSet(store, key, embedding, ttl, clock, maxSize, defaultTTL)
         firstTime == trail.onlyInserts /\ \A i \in 1..Len(trail.inserts) : trail.inserts[i] # ck
     IN /\ store' = after
        /\ lastCall' = [op |-> "set", key |-> ck, at |-> clock, before |-> store,
                        value |-> embedding, trail |-> trail]
        /\ trail' = [plain |-> trail.plain /\ ~present,
                     touch |-> Append(SelectSeq(trail.touch,
                                                LAMBDA k : k # ck /\ MapHas(after, k)), ck),
                     refreshed |->
                       IF present
                       THEN <<[key |-> ck, others |-> MapKeys(after) \ {ck}]>>
                       ELSE IF trail.refreshed # <<>> /\ trail.refreshed[1].key # ck
                       THEN <<[key |-> trail.refreshed[1].key,
                               others |-> trail.refreshed[1].others \cap MapKeys(after)]>>
                       ELSE <<>>,
                     got |->
                       IF trail.got # <<>> /\ ~present /\ trail.got[1].key # ck
                       THEN <<[key |-> trail.got[1].key,
                               inserted |-> IF trail.got[1].inserted > MaxCapacity
                                            THEN trail.got[1].inserted
                                            ELSE trail.got[1].inserted + 1]>>
                       ELSE <<>>,
                     inserts |-> IF firstTime THEN Append(trail.inserts, ck) ELSE <<>>,
                     onlyInserts |-> firstTime,
                     expired |-> trail.expired \ {ck}]
  /\ UNCHANGED <<maxSize, defaultTTL, clock>>
  /\ UNCHANGED nonCacheVars

Delete(key) ==
  /\ LET ck == createCacheKey(key)
     IN /\ store' = EcDelete(store, key)
        /\ lastCall' = [op |-> "delete", key |-> ck, at |-> clock, before |-> store,
                        value |-> MapHas(store, ck), trail |-> trail]
        /\ trail' = [trail EXCEPT !.plain = FALSE, !.touch = Without(trail.touch, ck),
                                  !.refreshed = <<>>, !.got = <<>>,
                                  !.inserts = <<>>, !.onlyInserts = FALSE]
  /\ UNCHANGED <<maxSize, defaultTTL, clock>>
  /\ UNCHANGED nonCacheVars

Clear ==
  /\ store' = EcClear(store)
  /\ lastCall' = [op |-> "clear", at |-> clock, before |-> store, trail |-> trail]
  /\ trail' = [trail EXCEPT !.plain = FALSE, !.touch = <<>>, !.refreshed = <<>>,
                            !.got = <<>>, !.inserts = <<>>, !.onlyInserts = FALSE]
  /\ UNCHANGED <<maxSize, defaultTTL, clock>>
  /\ UNCHANGED nonCacheVars

\* time passes between two calls
Tick ==
  /\ clock < MaxClock
  /\ clock' = clock + 1
  /\ UNCHANGED <<store, maxSize, defaultTTL, lastCall, trail>>
  /\ UNCHANGED nonCacheVars

CacheNext ==
  \/ \E key \in EcKeys : Get(key)
  \/ \E key \in EcKeys, embedding \in EcEmbeddings, ttl \in EcTTLs : Set(key, embedding, ttl)
  \/ \E key \in EcKeys : Delete(key)
  \/ Clear

CacheSpec == CacheInit /\ [][CacheNext]_allVars

TtlNext ==
  \/ \E key \in TtlKeys : Get(key)
  \/ \E key \in TtlKeys, embedding \in TtlEmbeddings, ttl \in TtlTTLs : Set(key, embedding, ttl)
  \/ \E key \in TtlKeys : Delete(key)
  \/ Clear
  \/ Tick

TtlSpec == TtlInit /\ [][TtlNext]_allVars

\* C13: after any sequence of get, set, delete and clear on a cache of
\* capacity N >= 1, size() <= N.
C13_SizeWithinCapacity == EcSize(store) <= maxSize

\* a set found the cache full and left it full
C13_Witness ==
  /\ lastCall.op = "set"
  /\ EcSize(lastCall.before) = maxSize
  /\ EcSize(store) = maxSize
  /\ ~MapHas(lastCall.before, lastCall.key)

\* the keys the latest call removed from the Map
Removed == MapKeys(lastCall.before) \ MapKeys(store)

\* C14: in a sequence of get calls and set calls on absent keys, a set made
\* while the cache holds capacity-many entries removes exactly one entry, the
\* one whose latest touch (insertion or later get hit) is the oldest; a set
\* made below capacity removes nothing.
C14_EvictsLeastRecentlyTouched ==
  (trail.plain /\ lastCall.op = "set") =>
    IF EcSize(lastCall.before) = maxSize
    THEN Removed = {Head(lastCall.trail.touch)}
    ELSE Removed = {}

\* a get hit was followed by a set that found the cache full: the key that
\* was read stays, another key goes
C14_Witness ==
  /\ trail.plain
  /\ lastCall.op = "set"
  /\ maxSize > 1
  /\ EcSize(lastCall.before) = maxSize
  /\ lastCall.trail.got # <<>>
  /\ lastCall.trail.got[1].key = lastCall.before[maxSize].key
  /\ MapHas(store, lastCall.trail.got[1].key)
  /\ Removed = {lastCall.before[1].key}

\* C15: set on a key that is present removes no other entry and leaves
\* size() unchanged, also when the cache is at capacity.
C15_SetPresentKeepsOthers ==
  (lastCall.op = "set" /\ MapHas(lastCall.before, lastCall.key)) =>
    /\ MapKeys(store) = MapKeys(lastCall.before)
    /\ EcSize(store) = EcSize(lastCall.before)

\* C16: set on a key that is present makes it the most recently used entry:
\* while new keys are then inserted, every other entry that was present is
\* evicted before that key.
C16_SetPresentIsTouch ==
  (trail.refreshed # <<>> /\ ~MapHas(store, trail.refreshed[1].key)) =>
    trail.refreshed[1].others = {}

\* C17 as stated: N + 1 distinct inserts evict exactly the first key, and
\* after a get hit on k, N inserts of other new keys do not evict k.
C17_GetSurvivesNInserts ==
  /\ (trail.onlyInserts /\ Len(trail.inserts) = maxSize + 1) =>
        MapKeys(store) = SeqRange(trail.inserts) \ {trail.inserts[1]}
  /\ (trail.got # <<>> /\ trail.got[1].inserted <= maxSize) =>
        MapHas(store, trail.got[1].key)

\* C17 amended: N + 1 distinct inserts evict exactly the first key, and after
\* a get hit on k, N - 1 inserts of other new keys do not evict k.
C17_GetSurvivesFewerInserts ==
  /\ (trail.onlyInserts /\ Len(trail.inserts) = maxSize + 1) =>
        MapKeys(store) = SeqRange(trail.inserts) \ {trail.inserts[1]}
  /\ (trail.got # <<>> /\ trail.got[1].inserted <= maxSize - 1) =>
        MapHas(store, trail.got[1].key)

\* after a get hit on k, N - 1 other keys were inserted: the cache is full
\* and k is its oldest entry
C17_Witness ==
  /\ maxSize > 1
  /\ trail.got # <<>>
  /\ trail.got[1].inserted = maxSize - 1
  /\ EcSize(store) = maxSize
  /\ store[1].key = trail.got[1].key

\* C18: get(k) returns the stored vector exactly when an entry for k exists
\* and its age does not exceed its own ttl; when the age exceeds the ttl, get
\* misses and removes the entry (size() drops by one), and no later get
\* returns the vector until k is set again.
C18_GetHonoursTTL ==
  lastCall.op = "get" =>
    LET b == lastCall.before
        k == lastCall.key
        live == /\ MapHas(b, k)
                /\ (lastCall.at - MapGet(b, k).createdAt) <= MapGet(b, k).ttl
    IN /\ live => lastCall.value = MapGet(b, k).embedding
       /\ ~live => lastCall.value = NoEmbedding
       /\ (MapHas(b, k) /\ ~live) =>
             (~MapHas(store, k) /\ EcSize(store) = EcSize(b) - 1)
       /\ k \in lastCall.trail.expired => lastCall.value = NoEmbedding

\* a get found an entry older than its ttl and removed it
C18_Witness ==
  /\ lastCall.op = "get"
  /\ MapHas(lastCall.before, lastCall.key)
  /\ (lastCall.at - MapGet(lastCall.before, lastCall.key).createdAt)
        > MapGet(lastCall.before, lastCall.key).ttl
  /\ lastCall.value = NoEmbedding
  /\ EcSize(store) = EcSize(lastCall.before) - 1

\* ======================================================================
\* client.ts: one getEmbedding call of a CLIP client exercised on its own
\* ======================================================================
\* pollForResult: maxAttempts
MaxAttempts == 30

Providers == {"replicate", "openai", "local"}

RequestTypes == {"text", "image"}

\* the positions at which the call waits for the remote side:
\*   submit     the POST fetch;  readError / readJson  the body of its response
\*   poll       the GET fetch of pollForResult and the body of its response
RemoteAwaits == {"submit", "readError", "readJson", "poll"}

\* data.status values the poll may return; the code tells succeeded and
\* failed from everything else
PollStatuses == {"starting", "processing", "canceled", "succeeded", "failed"}

\* data.output of a succeeded prediction, data.embedding of the other providers
RemoteEmbedding == <<1, 0>>

\* data.error of a failed prediction
RemoteErrors == {"oom", "timeout"}

\* error messages are kept as the parts their template strings join
Failure(parts) == [success |-> FALSE, embedding |-> NoEmbedding, error |-> parts]

Success(embedding) == [success |-> TRUE, embedding |-> embedding, error |-> <<>>]

NoResult == [success |-> FALSE, embedding |-> NoEmbedding, error |-> <<"-">>]

\* the prefix the catch block of each client puts before error.message
CaughtPrefix(p) ==
  CASE p = "replicate" -> "CLIP embedding failed: "
    [] p = "openai" -> "OpenAI embedding failed: "
    [] p = "local" -> "Local CLIP embedding failed: "

\* the message of the !response.ok branch of each client
ApiErrorPrefix(p) ==
  CASE p = "replicate" -> "Replicate API error: "
    [] p = "openai" -> "OpenAI API error: "
    [] p = "local" -> "Local CLIP API error: "

\* the Error pollForResult throws, as getEmbedding's catch block returns it
PredictionFailed(e) ==
  Failure(<<CaughtPrefix("replicate"), "Replicate prediction failed: ", e>>)

PredictionTimeout ==
  Failure(<<CaughtPrefix("replicate"), "Replicate prediction timeout">>)

\* new AbortController() + setTimeout(() => controller.abort(), this.timeout)
HasAbortTimer(p) == p \in {"replicate", "local"}

NewJob(type) == [type |-> type, polls |-> 0, status |-> "-", afterTerminal |-> 0]

ClientInit ==
  /\ provider \in Providers
  /\ \E type \in RequestTypes : job = NewJob(type)
  /\ cpc = "start"
  /\ attempt = 0
  /\ abortTimer = FALSE
  /\ remoteUp = TRUE
  /\ result = NoResult
  /\ PostIdle
  /\ CacheIdle
  /\ FilterIdle
  /\ MatcherIdle
  /\ SimIdle
  /\ BgIdle

\* one GET fetch of pollForResult is sent
SendPoll(j) ==
  [j EXCEPT !.polls = @ + 1,
            !.afterTerminal = IF j.status \in {"succeeded", "failed"} THEN @ + 1 ELSE @]

\* getEmbedding up to its first await
GetEmbedding ==
  /\ cpc = "start"
  /\ IF provider = "openai" /\ job.type = "image"
     THEN /\ result' = Failure(<<"OpenAI does not support image embeddings via API">>)
          /\ cpc' = "done"
          /\ abortTimer' = abortTimer
     ELSE /\ result' = result
          /\ cpc' = "submit"
          /\ abortTimer' = HasAbortTimer(provider)
  /\ UNCHANGED <<provider, attempt, remoteUp, job>>
  /\ UNCHANGED nonClientVars

\* the POST fetch settles: a response arrives (clearTimeout), or it rejects
SubmitResponse ==
  /\ cpc = "submit"
  /\ remoteUp
  /\ \E outcome \in {"ok", "notOk", "rejected"} :
       IF outcome = "rejected"
       THEN /\ result' = Failure(<<CaughtPrefix(provider), "fetch failed">>)
            /\ cpc' = "done"
            /\ abortTimer' = abortTimer
       ELSE /\ result' = result
            /\ cpc' = IF outcome = "ok" THEN "readJson" ELSE "readError"
            /\ abortTimer' = FALSE
  /\ UNCHANGED <<provider, attempt, remoteUp, job>>
  /\ UNCHANGED nonClientVars

\* controller.abort() runs while the POST fetch is pending
AbortFires ==
  /\ abortTimer
  /\ cpc = "submit"
  /\ result' = Failure(<<CaughtPrefix(provider), "This operation was aborted">>)
  /\ cpc' = "done"
  /\ abortTimer' = FALSE
  /\ UNCHANGED <<provider, attempt, remoteUp, job>>
  /\ UNCHANGED nonClientVars

\* await response.text() / response.json() of the POST response
BodyResponse ==
  /\ cpc \in {"readError", "readJson"}
  /\ remoteUp
  /\ \E parsed \in BOOLEAN, dataSuccess \in BOOLEAN :
       IF cpc = "readError"
       THEN /\ result' = Failure(<<ApiErrorPrefix(provider), "status">>)
            /\ cpc' = "done"
            /\ job' = job
       ELSE IF ~parsed
       THEN /\ result' = Failure(<<CaughtPrefix(provider), "Unexpected token">>)
            /\ cpc' = "done"
            /\ job' = job
       ELSE IF provider = "replicate"
       THEN /\ result' = result
            /\ cpc' = "poll"
            /\ job' = SendPoll(job)
       ELSE /\ result' = IF provider = "openai" \/ dataSuccess
                         THEN Success(RemoteEmbedding)
                         ELSE Failure(<<"data.error">>)
            /\ cpc' = "done"
            /\ job' = job
  /\ UNCHANGED <<provider, attempt, abortTimer, remoteUp>>
  /\ UNCHANGED nonClientVars

\* pollForResult: one GET fetch and its body arrive
PollResponse ==
  /\ cpc = "poll"
  /\ remoteUp
  /\ \E status \in PollStatuses, e \in RemoteErrors :
       /\ job' = [job EXCEPT !.status = status]
       /\ IF status = "succeeded"
          THEN result' = Success(RemoteEmbedding) /\ cpc' = "done"
          ELSE IF status = "failed"
          THEN result' = PredictionFailed(e) /\ cpc' = "done"
          ELSE result' = result /\ cpc' = "sleep"
  /\ UNCHANGED <<provider, attempt, abortTimer, remoteUp>>
  /\ UNCHANGED nonClientVars

\* mutant: the loop runs while attempt <= maxAttempts
MoreAttempts_Inclusive(n) == n <= MaxAttempts

\* the loop condition attempt < maxAttempts
MoreAttempts(n) == n < MaxAttempts

\* pollForResult: the pollInterval timer ends, attempt++ and the loop test
PollIntervalElapsed ==
  /\ cpc = "sleep"
  /\ attempt' = attempt + 1
  /\ IF MoreAttempts(attempt + 1)
     THEN /\ cpc' = "poll"
          /\ job' = SendPoll(job)
          /\ result' = result
     ELSE /\ cpc' = "done"
          /\ job' = job
          /\ result' = PredictionTimeout
  /\ UNCHANGED <<provider, abortTimer, remoteUp>>
  /\ UNCHANGED nonClientVars

\* the remote side stops answering for good
RemoteStops ==
  /\ remoteUp
  /\ cpc \in RemoteAwaits
  /\ remoteUp' = FALSE
  /\ UNCHANGED <<provider, cpc, attempt, abortTimer, job, result>>
  /\ UNCHANGED nonClientVars

ClientNext ==
  \/ GetEmbedding
  \/ SubmitResponse
  \/ AbortFires
  \/ BodyResponse
  \/ PollResponse
  \/ PollIntervalElapsed
  \/ RemoteStops

ClientSpec == ClientInit /\ [][ClientNext]_allVars

\* C19: every external call carries a timeout: whenever the call waits for a
\* remote side that has stopped answering, a timer is pending that will end
\* the wait with an error.
C19_EveryAwaitHasTimeout ==
  (cpc \in RemoteAwaits /\ ~remoteUp) => abortTimer

MaxFilters == 2

\* mutant: every ClipFilter gets a cache of its own
createEmbeddingCache_AlwaysNew(h, g) ==
  [heap |-> Append(h, <<>>), global |-> Len(h) + 1, ref |-> Len(h) + 1]

\* cache.ts createEmbeddingCache: the singleton, created on first use
createEmbeddingCache(h, g) ==
  IF g = 0
  THEN [heap |-> Append(h, <<>>), global |-> Len(h) + 1, ref |-> Len(h) + 1]
  ELSE [heap |-> h, global |-> g, ref |-> g]

\* the options the ClipFilter constructor passes
FilterCacheOptions ==
  NewEmbeddingCache([maxSize |-> CacheMaxSize, defaultTTL |-> CacheDefaultTTL])

FilterKeys == {[type |-> "text", value |-> "q"], [type |-> "image", value |-> 101]}

\* what this.client.getEmbedding may resolve with
FilterResponses ==
  { Success(RemoteEmbedding),
    Failure(<<ApiErrorPrefix("local"), "status">>),
    [success |-> TRUE, embedding |-> NoEmbedding, error |-> <<>>] }

\* !response.success || !response.embedding
ResponseFailed(resp) == ~resp.success \/ resp.embedding = NoEmbedding

\* the times at which calls are made: 0, the TTL later, one second after that
NextTime(t) == IF t = 0 THEN CacheDefaultTTL ELSE t + 1

FilterHorizon == CacheDefaultTTL + 1

NoLookup == [f |-> 0]

\* the vector stored for ck, by any filter, that is not older than the TTL
LiveInLedger(ck, t) ==
  {e \in ledger : e.key = ck /\ (t - e.at) <= CacheDefaultTTL}

FilterInit ==
  /\ heap = <<>>
  /\ globalCache = 0
  /\ filterCache = <<>>
  /\ lookups = {}
  /\ doneLookup = NoLookup
  /\ ledger = {}
  /\ ftime = 0
  /\ PostIdle
  /\ CacheIdle
  /\ ClientIdle
  /\ MatcherIdle
  /\ SimIdle
  /\ BgIdle

\* new ClipFilter(config, provider)
NewClipFilter ==
  /\ Len(filterCache) < MaxFilters
  /\ LET r == createEmbeddingCache(heap, globalCache)
     IN /\ heap' = r.heap
        /\ globalCache' = r.global
        /\ filterCache' = Append(filterCache, r.ref)
  /\ UNCHANGED <<lookups, doneLookup, ledger, ftime>>
  /\ UNCHANGED nonFilterVars

\* getTextEmbedding / getImageEmbedding up to the await of the client call
LookupEmbedding(f, key) ==
  /\ \A l \in lookups : ~(l.f = f /\ l.key = key)
  /\ LET ck == createCacheKey(key)
         r == EcGet(heap[filterCache[f]], key, ftime)
         prior == {e.embedding : e \in LiveInLedger(ck, ftime)}
     IN /\ heap' = [heap EXCEPT ![filterCache[f]] = r.map]
        /\ IF r.value # NoEmbedding
           THEN /\ doneLookup' = [f |-> f, key |-> key, at |-> ftime, prior |-> prior,
                                  asked |-> FALSE, response |-> NoResult,
                                  returned |-> r.value,
                                  cacheBefore |-> heap[filterCache[f]],
                                  cacheAfter |-> r.map]
                /\ lookups' = lookups
           ELSE /\ doneLookup' = doneLookup
                /\ lookups' = lookups \cup {[f |-> f, key |-> key, at |-> ftime,
                                             prior |-> prior]}
  /\ UNCHANGED <<globalCache, filterCache, ledger, ftime>>
  /\ UNCHANGED nonFilterVars

\* the client call resolves: the rest of getTextEmbedding / getImageEmbedding,
\* on a cache that was created with capacity max and default TTL ttl
ResolveLookup(l, resp, max, ttl) ==
  /\ l \in lookups
  /\ lookups' = lookups \ {l}
  /\ LET ref == filterCache[l.f]
         ck == createCacheKey(l.key)
         after == IF ResponseFailed(resp) THEN heap[ref]
                  ELSE EcSet(heap[ref], l.key, resp.embedding, <<>>, ftime, max, ttl)
     IN /\ heap' = [heap EXCEPT ![ref] = after]
        /\ doneLookup' = [f |-> l.f, key |-> l.key, at |-> l.at, prior |-> l.prior,
                          asked |-> TRUE, response |-> resp,
                          returned |-> IF ResponseFailed(resp) THEN NoEmbedding
                                       ELSE resp.embedding,
                          cacheBefore |-> heap[ref], cacheAfter |-> after]
        /\ ledger' = IF ResponseFailed(resp) THEN ledger
                     ELSE {e \in ledger : e.key # ck}
                          \cup {[key |-> ck, embedding |-> resp.embedding,
                                 at |-> ftime, by |-> l.f]}
  /\ UNCHANGED <<globalCache, filterCache, ftime>>

\* the client call of a ClipFilter lookup resolves
ClientResponse(l, resp) ==
  /\ ResolveLookup(l, resp, FilterCacheOptions.maxSize, FilterCacheOptions.defaultTTL)
  /\ UNCHANGED nonFilterVars

\* time passes
Elapse ==
  /\ NextTime(ftime) <= FilterHorizon
  /\ ftime' = NextTime(ftime)
  /\ UNCHANGED <<heap, globalCache, filterCache, lookups, doneLookup, ledger>>
  /\ UNCHANGED nonFilterVars

FilterNext ==
  \/ NewClipFilter
  \/ \E f \in 1..Len(filterCache), key \in FilterKeys : LookupEmbedding(f, key)
  \/ \E l \in lookups, resp \in FilterResponses : ClientResponse(l, resp)
  \/ Elapse

FilterSpec == FilterInit /\ [][FilterNext]_allVars

\* C21: a lookup of a (kind, content) pair for which an unexpired vector was
\* stored, by this or by an earlier filter instance, returns that vector and
\* does not call the embedding service.
C21_HitSkipsService ==
  /\ \A l \in lookups : l.prior = {}
  /\ (doneLookup # NoLookup /\ doneLookup.prior # {}) =>
        (~doneLookup.asked /\ doneLookup.prior = {doneLookup.returned})

\* the second filter instance got a vector that the first one had stored
C21_Witness ==
  /\ doneLookup # NoLookup
  /\ doneLookup.f = 2
  /\ ~doneLookup.asked
  /\ doneLookup.returned = RemoteEmbedding
  /\ \A e \in ledger : e.by = 1

\* the caller of the lookup receives an error value that carries the cause
CarriesCause(returned, cause) == returned # NoEmbedding /\ returned.error = cause

\* C22: after a miss, a vector the service returns is stored under the key
\* before the call returns; when the service call fails the cache is left
\* unchanged and the failure is reported as an error value carrying the cause.
C22_StoreOrReportCause ==
  (doneLookup # NoLookup /\ doneLookup.asked) =>
    IF ~ResponseFailed(doneLookup.response)
    THEN /\ doneLookup.returned = doneLookup.response.embedding
         /\ MapHas(doneLookup.cacheAfter, createCacheKey(doneLookup.key))
         /\ MapGet(doneLookup.cacheAfter, createCacheKey(doneLookup.key)).embedding
               = doneLookup.response.embedding
    ELSE /\ doneLookup.cacheAfter = doneLookup.cacheBefore
         /\ CarriesCause(doneLookup.returned, doneLookup.response.error)

\* the part of C22 the code keeps: store on success, no change on failure
\* (the failed call returns null)
StoredOrUnchanged ==
  (doneLookup # NoLookup /\ doneLookup.asked) =>
    IF ~ResponseFailed(doneLookup.response)
    THEN /\ doneLookup.returned = doneLookup.response.embedding
         /\ MapHas(doneLookup.cacheAfter, createCacheKey(doneLookup.key))
    ELSE /\ doneLookup.cacheAfter = doneLookup.cacheBefore
         /\ doneLookup.returned = NoEmbedding

\* ----------------------------------------------------------------------
\* background/folder-matcher.js: applyMapping, findFolderByName,
\* selectBestMatch, searchFolder, matchCharacterFolders
\* ----------------------------------------------------------------------
\* String.prototype.startsWith
startsWith(hay, needle) ==
  /\ Len(needle) <= Len(hay)
  /\ SubSeq(hay, 1, Len(needle)) = needle

IsSpace(c) == c = " "

\* String.prototype.trim
RECURSIVE trimStart(_)
trimStart(s) == IF s # <<>> /\ IsSpace(Head(s)) THEN trimStart(Tail(s)) ELSE s

RECURSIVE trimEnd(_)
trimEnd(s) ==
  IF s # <<>> /\ IsSpace(s[Len(s)]) THEN trimEnd(SubSeq(s, 1, Len(s) - 1)) ELSE s

trim(s) == trimEnd(trimStart(s))

\* s.replace(/\s+/g, '')
removeWhitespace(s) == SelectSeq(s, LAMBDA c : ~IsSpace(c))

\* s.split(/\s+/) from position i on, cur being the token read so far: a run
\* of whitespace ends one token; a leading or trailing run leaves an empty one
RECURSIVE splitFrom(_, _, _)
splitFrom(s, i, cur) ==
  IF i > Len(s) THEN <<cur>>
  ELSE IF IsSpace(s[i])
       THEN IF i > 1 /\ IsSpace(s[i - 1])
            THEN splitFrom(s, i + 1, cur)
            ELSE <<cur>> \o splitFrom(s, i + 1, <<>>)
       ELSE splitFrom(s, i + 1, Append(cur, s[i]))

split(s) == splitFrom(s, 1, <<>>)

\* words.join(' ')
RECURSIVE join(_)
join(words) ==
  IF words = <<>> THEN <<>>
  ELSE IF Len(words) = 1 THEN Head(words)
  ELSE Head(words) \o <<" ">> \o join(Tail(words))

Abs(n) == IF n < 0 THEN 0 - n ELSE n

\* null of findFolderByName / searchFolder
NoFolder == 0
NoFolders == <<>>

\* the value of mappings[key]: the first entry with this key, <<>> for undefined
RECURSIVE Lookup(_, _)
Lookup(mappings, key) ==
  IF mappings = <<>> THEN <<>>
  ELSE IF Head(mappings).key = key THEN Head(mappings).folderName
  ELSE Lookup(Tail(mappings), key)

\* Object.entries(mappings).find(([key]) => key.toLowerCase() === lowerName),
\* as the folder name of the entry found, <<>> when there is none
RECURSIVE FindIgnoringCase(_, _)
FindIgnoringCase(mappings, lowerName) ==
  IF mappings = <<>> THEN <<>>
  ELSE IF toLowerCase(Head(mappings).key) = lowerName THEN Head(mappings).folderName
  ELSE FindIgnoringCase(Tail(mappings), lowerName)

\* applyMapping: exact key, else the first key equal ignoring case, else the name
applyMapping(characterName, mappings) ==
  LET exact == Lookup(mappings, characterName)
      ci == FindIgnoringCase(mappings, toLowerCase(characterName))
  IN IF exact # <<>> THEN exact
     ELSE IF ci # <<>> THEN ci
     ELSE characterName

\* the base score of selectBestMatch before the length penalty
BaseScore_StartsWithFirst(lowerFolderName, lowerCharName) ==
  IF lowerFolderName = lowerCharName THEN 1000
  ELSE IF startsWith(lowerFolderName, lowerCharName) THEN 850
  ELSE IF includes(lowerFolderName, lowerCharName) THEN 900
  ELSE LET charWords == split(lowerCharName)
           folderWords == split(lowerFolderName)
           matchedWords == SelectSeq(charWords, LAMBDA word : word \in SeqRange(folderWords))
       IN 700 + Len(matchedWords) * 50

BaseScore(lowerFolderName, lowerCharName) ==
  IF lowerFolderName = lowerCharName THEN 1000
  ELSE IF includes(lowerFolderName, lowerCharName) THEN 900
  ELSE IF startsWith(lowerFolderName, lowerCharName) THEN 850
  ELSE LET charWords == split(lowerCharName)
           folderWords == split(lowerFolderName)
           matchedWords == SelectSeq(charWords, LAMBDA word : word \in SeqRange(folderWords))
       IN 700 + Len(matchedWords) * 50

\* the score selectBestMatch gives a folder name for a character name
Score(folderName, characterName) ==
  LET lowerCharName == toLowerCase(characterName)
      lowerFolderName == toLowerCase(folderName)
      lengthDiff == Abs(Len(lowerFolderName) - Len(lowerCharName))
  IN BaseScore(lowerFolderName, lowerCharName) - lengthDiff * 2

ScoreInsert_TiesLast(x, sorted) ==
  LET before == SelectSeq(sorted, LAMBDA y : y.score >= x.score)
  IN before \o <<x>> \o SubSeq(sorted, Len(before) + 1, Len(sorted))

\* puts x, which precedes every element of sorted in the input, in its place
ScoreInsert(x, sorted) ==
  LET before == SelectSeq(sorted, LAMBDA y : y.score > x.score)
      tied == SelectSeq(sorted, LAMBDA y : y.score = x.score)
      after == SelectSeq(sorted, LAMBDA y : y.score < x.score)
  IN before \o <<x>> \o tied \o after

\* scored.sort((a, b) => b.score - a.score), a stable sort
RECURSIVE sortByScore(_)
sortByScore(scored) ==
  IF scored = <<>> THEN <<>>
  ELSE ScoreInsert(Head(scored), sortByScore(Tail(scored)))

\* selectBestMatch: the folder, or NoFolder for null
selectBestMatch(folders, characterName) ==
  IF folders = <<>> THEN NoFolder
  ELSE LET scored == [i \in 1..Len(folders) |->
                        [folder |-> folders[i],
                         score |-> Score(folders[i].name, characterName)]]
       IN sortByScore(scored)[1].folder

\* searchFolder applied to what the fetch produced: null unless the request
\* succeeded with a non-empty folder list
searchFolder(reply) ==
  IF reply.kind = "ok" /\ reply.folders # <<>> THEN reply.folders ELSE NoFolders

\* mappedName.trim().toLowerCase().replace(/\s+/g, '')
normalizedName(mappedName) == removeWhitespace(toLowerCase(trim(mappedName)))

\* puts word w, which precedes every element of sorted in the input, in its place
LengthInsert_TiesLast(w, sorted) ==
  LET before == SelectSeq(sorted, LAMBDA y : Len(y) >= Len(w))
      rest == SelectSeq(sorted, LAMBDA y : Len(y) < Len(w))
  IN before \o <<w>> \o rest

LengthInsert(w, sorted) ==
  LET before == SelectSeq(sorted, LAMBDA y : Len(y) > Len(w))
      rest == SelectSeq(sorted, LAMBDA y : Len(y) <= Len(w))
  IN before \o <<w>> \o rest

RECURSIVE sortByLength(_)
sortByLength(words) ==
  IF words = <<>> THEN <<>>
  ELSE LengthInsert(Head(words), sortByLength(Tail(words)))

\* mappedName.split(/\s+/).filter(w => w.length >= 2).sort(longest first)
searchWords(mappedName) ==
  sortByLength(SelectSeq(split(mappedName), LAMBDA word : Len(word) >= 2))

SearchPlan_WordsFirst(mappedName) ==
  LET words == searchWords(mappedName)
  IN [i \in 1..Len(words) |-> [step |-> "word", query |-> words[i]]]
     \o <<[step |-> "exact", query |-> mappedName]>>
     \o (IF normalizedName(mappedName) # toLowerCase(mappedName)
         THEN <<[step |-> "normalized", query |-> normalizedName(mappedName)]>>
         ELSE <<>>)

\* the searches findFolderByName awaits, in order, while each one comes back
\* without candidates
SearchPlan(mappedName) ==
  LET words == searchWords(mappedName)
  IN <<[step |-> "exact", query |-> mappedName]>>
     \o (IF normalizedName(mappedName) # toLowerCase(mappedName)
         THEN <<[step |-> "normalized", query |-> normalizedName(mappedName)]>>
         ELSE <<>>)
     \o [i \in 1..Len(words) |-> [step |-> "word", query |-> words[i]]]

\* names used by the characters, the mappings and the folders of the model
MatcherNames ==
  [re |-> <<"r", "e">>,
   reCap |-> <<"R", "e">>,
   reUpper |-> <<"R", "E">>,
   spaceRe |-> <<" ", "r", "e">>,
   boReb |-> <<"b", "o", " ", "R", "e", "b">>,
   boBo |-> <<"b", "o", " ", "b", "o">>,
   boXx |-> <<"b", "o", " ", "x", "x">>,
   reBo |-> <<"r", "e", " ", "b", "o">>,
   reXx |-> <<"r", "e", " ", "x", "x">>,
   reb |-> <<"R", "e", "b">>,
   rebBo |-> <<"R", "e", "b", " ", "b", "o">>,
   z |-> <<"z">>,
   three |-> join(<< <<"a">>, <<"b">>, <<"c">> >>),
   seven |-> join(<< <<"a">>, <<"b">>, <<"c">>, <<"d">>, <<"e">>, <<"f">>, <<"g">> >>),
   sevenBack |-> join(<< <<"g">>, <<"f">>, <<"e">>, <<"d">>, <<"c">>, <<"b">>, <<"a">> >>)]

\* FolderInfo records the search API can return
FolderInfo(id, name) == [id |-> id, name |-> name]

MatcherFolders ==
  [re |-> FolderInfo(1, MatcherNames.re),
   reBo |-> FolderInfo(2, MatcherNames.reBo),
   reUpper |-> FolderInfo(3, MatcherNames.reUpper),
   boXx |-> FolderInfo(4, MatcherNames.boXx),
   seven |-> FolderInfo(5, MatcherNames.seven),
   sevenBack |-> FolderInfo(6, MatcherNames.sevenBack),
   reXx |-> FolderInfo(7, MatcherNames.reXx),
   reb |-> FolderInfo(8, MatcherNames.reb),
   rebBo |-> FolderInfo(9, MatcherNames.rebBo)]

\* what a fetch of the search API can produce: a failure (network error,
\* HTML answer, status not ok, invalid JSON shape) or a folder list
SearchReplies ==
  { [kind |-> "failed", folders |-> <<>>],
    [kind |-> "ok", folders |-> <<>>],
    [kind |-> "ok", folders |-> <<MatcherFolders.re>>],
    [kind |-> "ok", folders |-> <<MatcherFolders.reBo, MatcherFolders.reUpper>>],
    [kind |-> "ok", folders |-> <<MatcherFolders.reBo, MatcherFolders.reXx>>],
    [kind |-> "ok", folders |-> <<MatcherFolders.boXx>>],
    [kind |-> "ok", folders |-> <<MatcherFolders.reb>>],
    [kind |-> "ok", folders |-> <<MatcherFolders.reb, MatcherFolders.rebBo>>],
    [kind |-> "ok", folders |-> <<MatcherFolders.sevenBack, MatcherFolders.seven>>] }

Mapping(key, folderName) == [key |-> key, folderName |-> folderName]

\* the characterMappings objects of the model, as entries in insertion order
MappingTables ==
  { <<>>,
    << Mapping(MatcherNames.z, MatcherNames.seven), Mapping(MatcherNames.reCap, MatcherNames.boXx), Mapping(MatcherNames.reUpper, MatcherNames.re) >> }

\* the character lists of the model
CharacterBatches ==
  { <<MatcherNames.re>>, <<MatcherNames.reCap>>, <<MatcherNames.spaceRe>>, <<MatcherNames.boReb>>, <<MatcherNames.boBo>>,
    <<MatcherNames.z>>, <<MatcherNames.three>>, <<MatcherNames.seven>>, <<MatcherNames.reUpper, MatcherNames.re>> }

\* a findFolderByName call that has applied the mapping and awaits its first search
NewFinder(characterName, mappings) ==
  [name |-> characterName,
   mappedName |-> applyMapping(characterName, mappings),
   log |-> <<>>,
   done |-> FALSE,
   folderId |-> NoFolder]

\* matchCharacterFolders starts one findFolderByName per character
MatcherInit ==
  /\ PostIdle
  /\ CacheIdle
  /\ ClientIdle
  /\ FilterIdle
  /\ SimIdle
  /\ BgIdle
  /\ \E characters \in CharacterBatches, mappings \in MappingTables :
        /\ mJob = [characters |-> characters, mappings |-> mappings]
        /\ finders = [i \in 1..Len(characters) |-> NewFinder(characters[i], mappings)]
  /\ mpc = "searching"
  /\ settled = <<>>
  /\ matched = <<>>

\* the search finder i awaits comes back: the best candidate is returned if
\* there are candidates, else the next search is awaited or null is returned
SearchResponse(i, reply) ==
  /\ mpc = "searching"
  /\ ~finders[i].done
  /\ LET f == finders[i]
         plan == SearchPlan(f.mappedName)
         search == plan[Len(f.log) + 1]
         found == searchFolder(reply)
         log == Append(f.log, [step |-> search.step, query |-> search.query,
                               reply |-> reply])
         last == Len(log) = Len(plan)
         g == IF found # NoFolders
              THEN [f EXCEPT !.log = log, !.done = TRUE,
                             !.folderId = selectBestMatch(found, f.mappedName).id]
              ELSE [f EXCEPT !.log = log, !.done = last]
     IN /\ finders' = [finders EXCEPT ![i] = g]
        /\ settled' = IF g.done THEN Append(settled, i) ELSE settled
  /\ UNCHANGED <<mJob, mpc, matched>>
  /\ UNCHANGED nonMatcherVars

PromiseAll_SettleOrder(fs, order) ==
  [k \in 1..Len(order) |-> [name |-> fs[order[k]].name, folderId |-> fs[order[k]].folderId]]

\* Promise.all: the results in the order of the input array
PromiseAll(fs, order) ==
  [i \in 1..Len(fs) |-> [name |-> fs[i].name, folderId |-> fs[i].folderId]]

\* every findFolderByName has settled: matchCharacterFolders returns
MatchReturns ==
  /\ mpc = "searching"
  /\ \A i \in 1..Len(finders) : finders[i].done
  /\ matched' = PromiseAll(finders, settled)
  /\ mpc' = "returned"
  /\ UNCHANGED <<mJob, finders, settled>>
  /\ UNCHANGED nonMatcherVars

MatcherNext ==
  \/ \E i \in 1..Len(finders), reply \in SearchReplies : SearchResponse(i, reply)
  \/ MatchReturns

MatcherSpec == MatcherInit /\ [][MatcherNext]_allVars

\* ----------------------------------------------------------------------
\* Properties of the folder matcher
\* ----------------------------------------------------------------------
StepRank(step) ==
  CASE step = "exact" -> 1
    [] step = "normalized" -> 2
    [] step = "word" -> 3

\* the search of this log entry produced candidates
HasCandidates(entry) == entry.reply.kind = "ok" /\ entry.reply.folders # <<>>

\* the candidate with the highest score, the earliest of them on a tie
BestOf(folders, queryName) ==
  LET best == CHOOSE j \in 1..Len(folders) :
                /\ \A k \in 1..Len(folders) :
                      Score(folders[k].name, queryName) <= Score(folders[j].name, queryName)
                /\ \A k \in 1..(j - 1) :
                      Score(folders[k].name, queryName) < Score(folders[j].name, queryName)
  IN folders[best]

\* C23: the searches of one character are the exact (alias-substituted) name,
\* then the normalized name, then single words; the best candidate of the
\* first search with candidates is returned and nothing is searched after it;
\* null is returned when every search came back without candidates.
C23_SearchOrder ==
  \A i \in 1..Len(finders) :
    LET f == finders[i]
        log == f.log
        n == Len(log)
        wordQueries == SelectSeq(log, LAMBDA e : e.step = "word")
    IN /\ n >= 1 => (log[1].step = "exact" /\ log[1].query = f.mappedName)
       /\ \A j \in 1..n : \A k \in (j + 1)..n :
             /\ StepRank(log[j].step) <= StepRank(log[k].step)
             /\ log[j].step = log[k].step => log[j].step = "word"
       /\ \A j \in 1..n :
             /\ log[j].step = "normalized" =>
                   log[j].query = removeWhitespace(toLowerCase(trim(f.mappedName)))
             /\ log[j].step = "word" => log[j].query \in SeqRange(split(f.mappedName))
       /\ \A j \in 1..(n - 1) : ~HasCandidates(log[j])
       /\ (n >= 1 /\ HasCandidates(log[n])) =>
             /\ f.done
             /\ f.folderId = BestOf(log[n].reply.folders, f.mappedName).id
       /\ (f.done /\ ~HasCandidates(log[n])) =>
             /\ f.folderId = NoFolder
             /\ Len(wordQueries) = Len(searchWords(f.mappedName))
       /\ ~f.done => f.folderId = NoFolder

\* a character resolved by its word search after the exact and the normalized
\* search came back empty, and another one that ended with null
C23_Witness ==
  /\ \E i \in 1..Len(finders) :
        /\ finders[i].done
        /\ finders[i].folderId # NoFolder
        /\ Len(finders[i].log) = 3
        /\ finders[i].log[2].step = "normalized"
        /\ finders[i].log[3].step = "word"
  /\ \E i \in 1..Len(finders) :
        /\ finders[i].done
        /\ finders[i].folderId = NoFolder
        /\ Len(finders[i].log) >= 2

\* every (folder name, query name) pair selectBestMatch has scored so far
ScoredPairs ==
  UNION { UNION { { <<e.reply.folders[k].name, finders[i].mappedName>> :
                      k \in 1..Len(e.reply.folders) } :
                  e \in {x \in SeqRange(finders[i].log) : HasCandidates(x)} } :
          i \in 1..Len(finders) }

\* the words two names share, each one once
SharedWords(a, b) == SeqRange(split(a)) \cap SeqRange(split(b))

\* the score as stated: base of the first applicable rule minus the penalty
StatedScore(galleryName, queryName) ==
  LET g == toLowerCase(galleryName)
      q == toLowerCase(queryName)
      base == IF g = q THEN 1000
              ELSE IF includes(g, q) THEN 900
              ELSE IF startsWith(g, q) THEN 850
              ELSE 700 + 50 * Cardinality(SharedWords(g, q))
  IN base - 2 * Abs(Len(galleryName) - Len(queryName))

\* C24: score(galleryName, queryName), compared case-insensitively, is the base
\* of the first applicable rule (1000 equal, 900 contains, 850 starts with,
\* otherwise 700 + 50 x the number of shared words, each counted once) minus
\* 2 x the difference of the lengths.
C24_ScoreAsStated ==
  \A pair \in ScoredPairs : Score(pair[1], pair[2]) = StatedScore(pair[1], pair[2])

\* a query name in which no word occurs twice
NoRepeatedWord(name) ==
  LET words == split(toLowerCase(name))
  IN \A j \in 1..Len(words) : \A k \in (j + 1)..Len(words) : words[j] # words[k]

\* the stated score is the computed one for query names without a repeated word
ScoreAsStatedWithoutRepeats ==
  \A pair \in ScoredPairs :
     NoRepeatedWord(pair[2]) => Score(pair[1], pair[2]) = StatedScore(pair[1], pair[2])

\* the log entry whose candidates finder f chose its folder from
Deciding(f) == f.log[Len(f.log)]

\* finder f has returned a folder
Resolved(f) == f.done /\ f.folderId # NoFolder

\* the candidate finder f returned
Chosen(f) ==
  LET folders == Deciding(f).reply.folders
  IN folders[CHOOSE k \in 1..Len(folders) : folders[k].id = f.folderId]

SameName(a, b) == toLowerCase(a) = toLowerCase(b)

\* C25: when the candidates of a search contain a gallery whose name equals
\* the query name ignoring case, the gallery returned has that name.
C25_EqualNameWins ==
  \A i \in 1..Len(finders) :
    LET f == finders[i]
    IN (/\ Resolved(f)
        /\ \E x \in SeqRange(Deciding(f).reply.folders) : SameName(x.name, f.mappedName))
       => SameName(Chosen(f).name, f.mappedName)

\* the equal-named gallery does win for query names of fewer than six words
EqualNameWinsForFewWords ==
  \A i \in 1..Len(finders) :
    LET f == finders[i]
    IN (/\ Resolved(f)
        /\ Len(split(f.mappedName)) < 6
        /\ \E x \in SeqRange(Deciding(f).reply.folders) : SameName(x.name, f.mappedName))
       => SameName(Chosen(f).name, f.mappedName)

\* an equal-named gallery listed after a longer one was returned
EqualNameWinsReached ==
  \E i \in 1..Len(finders) :
     /\ Resolved(finders[i])
     /\ Deciding(finders[i]).reply.folders = <<MatcherFolders.reBo, MatcherFolders.reUpper>>
     /\ finders[i].mappedName = MatcherNames.re
     /\ finders[i].folderId = MatcherFolders.reUpper.id

\* the position in the candidate list of the folder finder f returned
ChosenIndex(f) ==
  LET folders == Deciding(f).reply.folders
  IN CHOOSE k \in 1..Len(folders) : folders[k].id = f.folderId

\* the positions of the candidates that have the highest score
TopScored(folders, queryName) ==
  { j \in 1..Len(folders) :
      \A k \in 1..Len(folders) :
         Score(folders[k].name, queryName) <= Score(folders[j].name, queryName) }

\* C26: when several candidates share the highest score, the one that comes
\* first in the candidate list is returned.
C26_FirstOfTiesWins ==
  \A i \in 1..Len(finders) :
    LET f == finders[i]
    IN Resolved(f) =>
         LET top == TopScored(Deciding(f).reply.folders, f.mappedName)
         IN /\ ChosenIndex(f) \in top
            /\ \A j \in top : ChosenIndex(f) <= j

\* two candidates with the same highest score, the first one returned
C26_Witness ==
  \E i \in 1..Len(finders) :
     /\ Resolved(finders[i])
     /\ Deciding(finders[i]).reply.folders = <<MatcherFolders.reBo, MatcherFolders.reXx>>
     /\ TopScored(<<MatcherFolders.reBo, MatcherFolders.reXx>>, finders[i].mappedName) = {1, 2}
     /\ finders[i].folderId = MatcherFolders.reBo.id

\* the names alias substitution may put in place of name
AliasTargets(name, mappings) ==
  LET exact == {m.folderName : m \in {x \in SeqRange(mappings) : x.key = name}}
      anyCase == {m.folderName : m \in {x \in SeqRange(mappings) : SameName(x.key, name)}}
  IN IF exact # {} THEN exact
     ELSE IF anyCase # {} THEN anyCase
     ELSE {name}

\* the name is replaced by the target of the exactly equal key, else of a key
\* equal ignoring case, else kept; searches and scores use the replaced name
AliasSubstitutionAsStated ==
  \A i \in 1..Len(finders) :
    LET f == finders[i]
    IN /\ f.name = mJob.characters[i]
       /\ f.mappedName \in AliasTargets(f.name, mJob.mappings)
       /\ \A j \in 1..Len(f.log) :
             /\ f.log[j].step = "exact" => f.log[j].query = f.mappedName
             /\ f.log[j].step = "normalized" =>
                   f.log[j].query = removeWhitespace(toLowerCase(trim(f.mappedName)))
             /\ f.log[j].step = "word" => f.log[j].query \in SeqRange(split(f.mappedName))
       /\ Resolved(f) =>
             f.folderId = BestOf(Deciding(f).reply.folders, f.mappedName).id

\* the search for the alias target T of finder f returned the gallery named T
TargetFound(f) ==
  /\ f.mappedName # f.name
  /\ Len(f.log) >= 1
  /\ HasCandidates(f.log[1])
  /\ \E x \in SeqRange(f.log[1].reply.folders) : x.name = f.mappedName

\* C27: alias substitution replaces the name by the target of the exactly
\* equal key, else of a key equal ignoring case, else leaves it unchanged;
\* every later search and score uses the substituted name, so a name aliased
\* to T resolves to the gallery named T when the search for T returns it.
C27_AliasedNameResolvesToTarget ==
  /\ AliasSubstitutionAsStated
  /\ \A i \in 1..Len(finders) :
        TargetFound(finders[i]) =>
           /\ Resolved(finders[i])
           /\ Chosen(finders[i]).name = finders[i].mappedName

\* an alias found by its exactly equal key although an earlier key equals the
\* name ignoring case, and one found only ignoring case, both resolved to
\* the gallery named as the target
AliasResolvedReached ==
  /\ Len(finders) = 2
  /\ finders[1].name = MatcherNames.reUpper /\ finders[1].mappedName = MatcherNames.re
  /\ finders[2].name = MatcherNames.re /\ finders[2].mappedName = MatcherNames.boXx
  /\ TargetFound(finders[1]) /\ Chosen(finders[1]).name = MatcherNames.re
  /\ TargetFound(finders[2]) /\ Chosen(finders[2]).name = MatcherNames.boXx

\* what the searches of finder f alone determine as its result
OwnOutcome(f) ==
  IF HasCandidates(Deciding(f))
  THEN BestOf(Deciding(f).reply.folders, f.mappedName).id
  ELSE NoFolder

\* C28: a character whose searches all came back without candidates (an
\* empty list or a backend error) gets null; the call still returns, with one
\* result per character in input order, each determined by that character's
\* own searches.
C28_NoMatchIsNull ==
  /\ mpc \in {"searching", "returned"}
  /\ mpc = "returned" =>
        /\ Len(matched) = Len(mJob.characters)
        /\ \A i \in 1..Len(matched) :
              /\ matched[i].name = mJob.characters[i]
              /\ matched[i].folderId = OwnOutcome(finders[i])
              /\ (\A e \in SeqRange(finders[i].log) : ~HasCandidates(e)) =>
                    matched[i].folderId = NoFolder

\* the second character settled first with a folder, the first one ended
\* with null after a backend error, and the call returned both in input order
C28_Witness ==
  /\ mpc = "returned"
  /\ settled = <<2, 1>>
  /\ matched[1].folderId = NoFolder
  /\ \E e \in SeqRange(finders[1].log) : e.reply.kind = "failed"
  /\ matched[2].folderId # NoFolder

\* ----------------------------------------------------------------------
\* Properties of the request validation of POST
\* ----------------------------------------------------------------------
\* C29: a request whose gallery set is empty is rejected as invalid input
\* before Stage A, the embedding service or Stage D is invoked.
C29_EmptyGallerySetRejected ==
  req.characterFolders = <<>> =>
     /\ calls = NoCalls
     /\ pc = "done" => (~response.success /\ response.status \in {400, 429, 500})

\* a request without a characterFolders array is rejected before any call
MissingGallerySetRejected ==
  (req.textOk /\ ~req.hasFolders) =>
     /\ calls = NoCalls
     /\ pc = "done" => (~response.success /\ response.status \in {400, 429})

\* ----------------------------------------------------------------------
\* IEEE-754 double arithmetic (Math.sqrt, *, / on JavaScript numbers).
\* A natural number is a little-endian sequence of limbs below LimbBase; a
\* positive double is m * 2^e with 2^52 <= m < 2^53.
\* ----------------------------------------------------------------------
\* bits of the significand of a double
MantissaBits == 53

LimbBase == 128 * 128

RECURSIVE Pow2(_)
Pow2(k) == IF k = 0 THEN 1 ELSE 2 * Pow2(k - 1)

\* floor(log2(n)) of a small n >= 1
RECURSIVE Log2(_)
Log2(n) == IF n < 2 THEN 0 ELSE 1 + Log2(n \div 2)

LimbBits == Log2(LimbBase)

\* carries propagated: every limb below LimbBase, no leading zero limb kept
RECURSIVE BCarry(_, _)
BCarry(a, carry) ==
  IF a = <<>> THEN (IF carry = 0 THEN <<>> ELSE <<carry % LimbBase>> \o BCarry(<<>>, carry \div LimbBase))
  ELSE LET v == Head(a) + carry
       IN <<v % LimbBase>> \o BCarry(Tail(a), v \div LimbBase)

RECURSIVE BTrim(_)
BTrim(a) == IF a # <<>> /\ a[Len(a)] = 0 THEN BTrim(SubSeq(a, 1, Len(a) - 1)) ELSE a

BNat(a) == BTrim(BCarry(a, 0))

Limb(a, i) == IF i >= 1 /\ i <= Len(a) THEN a[i] ELSE 0

BAdd(a, b) ==
  LET n == IF Len(a) > Len(b) THEN Len(a) ELSE Len(b)
  IN BNat([i \in 1..n |-> Limb(a, i) + Limb(b, i)])

RECURSIVE ColumnSum(_, _, _, _)
ColumnSum(a, b, k, i) ==
  IF i > Len(a) THEN 0
  ELSE Limb(a, i) * Limb(b, k + 1 - i) + ColumnSum(a, b, k, i + 1)

\* schoolbook product; columns are carried one by one so that no sum
\* leaves the 32-bit range
RECURSIVE BMulFrom(_, _, _, _)
BMulFrom(a, b, k, carry) ==
  IF k > Len(a) + Len(b) THEN (IF carry = 0 THEN <<>> ELSE <<carry>>)
  ELSE LET lo == [i \in 1..Len(a) |-> (Limb(a, i) * Limb(b, k + 1 - i)) % LimbBase]
           hi == [i \in 1..Len(a) |-> (Limb(a, i) * Limb(b, k + 1 - i)) \div LimbBase]
           RECURSIVE Sum(_)
           Sum(s) == IF s = <<>> THEN 0 ELSE Head(s) + Sum(Tail(s))
           v == Sum(lo) + carry
       IN <<v % LimbBase>> \o BMulFrom(a, b, k + 1, Sum(hi) + v \div LimbBase)

BMul(a, b) == IF a = <<>> \/ b = <<>> THEN <<>> ELSE BTrim(BMulFrom(a, b, 1, 0))

\* -1, 0, 1 as a < b, a = b, a > b (both trimmed)
RECURSIVE BCmpFrom(_, _, _)
BCmpFrom(a, b, i) ==
  IF i = 0 THEN 0
  ELSE IF a[i] < b[i] THEN -1
  ELSE IF a[i] > b[i] THEN 1
  ELSE BCmpFrom(a, b, i - 1)

BCmp(a, b) ==
  IF Len(a) < Len(b) THEN -1
  ELSE IF Len(a) > Len(b) THEN 1
  ELSE BCmpFrom(a, b, Len(a))

\* 2^k
BPow2(k) == [i \in 1..(k \div LimbBits + 1) |->
               IF i = k \div LimbBits + 1 THEN Pow2(k % LimbBits) ELSE 0]

\* n * 2^k for a small n
BShifted(n, k) == BMul(BNat(<<n>>), BPow2(k))

\* the largest q < 2^(i+1) + q0 that keeps Fits(q), bits tried from i down
RECURSIVE BitSearch(_, _, _)
BitSearch(Fits(_), q, i) ==
  IF i < 0 THEN q
  ELSE LET c == BAdd(q, BPow2(i))
       IN IF Fits(c) THEN BitSearch(Fits, c, i - 1) ELSE BitSearch(Fits, q, i - 1)

\* a mantissa that rounding carried to 2^53 is renormalised
Double(m, e) ==
  IF BCmp(m, BPow2(MantissaBits)) = 0
  THEN [m |-> BPow2(MantissaBits - 1), e |-> e + 1]
  ELSE [m |-> m, e |-> e]

\* Math.sqrt(s) of an integer s >= 1, correctly rounded
fsqrt(s) ==
  LET sh == 2 * (MantissaBits - 1) - 2 * (Log2(s) \div 2)
      N == BShifted(s, sh)
      m == BitSearch(LAMBDA c : BCmp(BMul(c, c), N) <= 0, <<>>, MantissaBits - 1)
      up == BCmp(N, BAdd(BMul(m, m), m)) > 0
  IN Double(IF up THEN BAdd(m, <<1>>) ELSE m, 0 - (sh \div 2))

\* q rounded to nearest, ties to even, where q = floor(num / den) and
\* twice the remainder is compared with den
RoundedQuotient(q, num, den) ==
  LET mid == BMul(BAdd(BAdd(q, q), <<1>>), den)
      c == BCmp(BAdd(num, num), mid)
      odd == q # <<>> /\ q[1] % 2 = 1
  IN IF c > 0 \/ (c = 0 /\ odd) THEN BAdd(q, <<1>>) ELSE q

\* floor(a / 2^k)
BShr(a, k) ==
  LET skip == k \div LimbBits
      b == k % LimbBits
  IN BNat([i \in 1..(Len(a) - skip) |->
             Limb(a, i + skip) \div Pow2(b)
               + (Limb(a, i + skip + 1) % Pow2(b)) * Pow2(LimbBits - b)])

\* x * y of two positive doubles
fmul(x, y) ==
  LET P == BMul(x.m, y.m)
      t == IF BCmp(P, BPow2(2 * MantissaBits - 1)) >= 0 THEN MantissaBits ELSE MantissaBits - 1
  IN Double(RoundedQuotient(BShr(P, t), P, BPow2(t)), x.e + y.e + t)

\* d / y of an integer d >= 1 and a positive double y
fdiv(d, y) ==
  LET L == Log2(d)
      t0 == 2 * (MantissaBits - 1) - L
      t == IF BCmp(BShifted(d, t0), BMul(BPow2(MantissaBits - 1), y.m)) >= 0 THEN t0 ELSE t0 + 1
      D == BShifted(d, t)
      q == BitSearch(LAMBDA c : BCmp(BMul(c, y.m), D) <= 0, <<>>, MantissaBits - 1)
  IN Double(RoundedQuotient(q, D, y.m), 0 - t - y.e)

\* the number 0
FZero == [m |-> <<>>, e |-> 0]

\* computeMagnitude: Math.sqrt of the sum of squares
computeMagnitude(vector) ==
  LET sumSq == computeMagnitudeSq(vector)
  IN IF sumSq = 0 THEN FZero ELSE fsqrt(sumSq)

\* computeCosineSimilarity as the double it returns for vectors of equal
\* length: Math.max(0, dotProduct / (mag1 * mag2)), 0 for a zero vector
computeCosineSimilarity64(embedding1, embedding2) ==
  LET mag1 == computeMagnitude(embedding1)
      mag2 == computeMagnitude(embedding2)
      dotProduct == computeDotProduct(embedding1, embedding2)
  IN IF mag1 = FZero \/ mag2 = FZero THEN FZero
     ELSE IF dotProduct <= 0 THEN FZero
     ELSE fdiv(dotProduct, fmul(mag1, mag2))

\* ----------------------------------------------------------------------
\* similarity.ts called on its own: computeCosineSimilarity
\* ----------------------------------------------------------------------
\* longest vector passed
MaxDim == 2

\* the values of a vector component
Components == {-1, 0, 1}

RECURSIVE VectorsOfLength(_)
VectorsOfLength(n) ==
  IF n = 0 THEN {<<>>}
  ELSE {Append(v, c) : v \in VectorsOfLength(n - 1), c \in Components}

\* a vector of three equal components, passed besides the short ones
OnesOfThree == <<1, 1, 1>>

Vectors == UNION {VectorsOfLength(n) : n \in 0..MaxDim} \cup {OnesOfThree}

NoOutcome == [kind |-> "-"]

\* the call of computeCosineSimilarity with its dimension check: an Error is
\* thrown for vectors of different length before anything else is looked at
cosineSimilarity(embedding1, embedding2) ==
  IF Len(embedding1) # Len(embedding2)
  THEN [kind |-> "throws", error |-> "Embedding dimensions must match"]
  ELSE [kind |-> "returns",
        value |-> computeCosineSimilarity(embedding1, embedding2),
        number |-> computeCosineSimilarity64(embedding1, embedding2)]

\* mutant: only a shorter first vector is refused
dotProduct_ShorterOnly(vec1, vec2) ==
  IF Len(vec1) < Len(vec2)
  THEN [kind |-> "throws", error |-> "Vector dimensions must match"]
  ELSE [kind |-> "returns",
        value |-> computeDotProduct(SubSeq(vec1, 1, Len(vec2)), vec2)]

\* the call of computeDotProduct with its dimension check
dotProduct(vec1, vec2) ==
  IF Len(vec1) # Len(vec2)
  THEN [kind |-> "throws", error |-> "Vector dimensions must match"]
  ELSE [kind |-> "returns", value |-> computeDotProduct(vec1, vec2)]

\* longest list passed to sortBySimilarity
MaxItems == 3

\* the scores passed to sortBySimilarity, as fractions
ScoreValues == {[n |-> 0, d |-> 1], [n |-> 1, d |-> 2], [n |-> 1, d |-> 1]}

RECURSIVE ScoreLists(_)
ScoreLists(n) ==
  IF n = 0 THEN {<<>>}
  ELSE {Append(l, x) : l \in ScoreLists(n - 1), x \in ScoreValues}

\* items are named by their position in the input
ItemLists == {[i \in 1..n |-> i] : n \in 0..MaxItems}

\* the call of sortBySimilarity with its length check
rankBySimilarity(items, scores) ==
  IF Len(items) # Len(scores)
  THEN [kind |-> "throws", error |-> "Items and scores arrays must have the same length"]
  ELSE [kind |-> "returns", value |-> sortBySimilarity(items, scores)]

SimInit ==
  /\ PostIdle
  /\ CacheIdle
  /\ ClientIdle
  /\ FilterIdle
  /\ MatcherIdle
  /\ BgIdle
  /\ \/ simFn \in {"cosine", "dot"} /\ simArgs \in Vectors \X Vectors
     \/ /\ simFn = "sort"
        /\ simArgs \in ItemLists \X UNION {ScoreLists(n) : n \in 0..MaxItems}
  /\ simOut = NoOutcome

\* computeCosineSimilarity(embedding1, embedding2) is called and ends
CallCosineSimilarity ==
  /\ simFn = "cosine"
  /\ simOut = NoOutcome
  /\ simOut' = cosineSimilarity(simArgs[1], simArgs[2])
  /\ UNCHANGED <<simFn, simArgs>>
  /\ UNCHANGED nonSimVars

\* computeDotProduct(vec1, vec2) is called and ends
CallDotProduct ==
  /\ simFn = "dot"
  /\ simOut = NoOutcome
  /\ simOut' = dotProduct(simArgs[1], simArgs[2])
  /\ UNCHANGED <<simFn, simArgs>>
  /\ UNCHANGED nonSimVars

\* sortBySimilarity(items, scores) is called and ends
CallSortBySimilarity ==
  /\ simFn = "sort"
  /\ simOut = NoOutcome
  /\ simOut' = rankBySimilarity(simArgs[1], simArgs[2])
  /\ UNCHANGED <<simFn, simArgs>>
  /\ UNCHANGED nonSimVars

SimNext ==
  \/ CallCosineSimilarity
  \/ CallDotProduct
  \/ CallSortBySimilarity

SimSpec == SimInit /\ [][SimNext]_allVars

\* the call of the named function has ended
Ended(fn) == simFn = fn /\ simOut # NoOutcome

\* a vector of magnitude 0
ZeroMagnitude(v) == \A i \in 1..Len(v) : v[i] = 0

\* the call returned the number 0
ReturnsZero(out) == out.kind = "returns" /\ out.value.n = 0 /\ out.value.d > 0

\* C30: for all vectors a and b of which one has magnitude 0,
\* cosineSimilarity(a, b) returns 0 and does not fail.
C30_ZeroVectorGivesZero ==
  (Ended("cosine") /\ (ZeroMagnitude(simArgs[1]) \/ ZeroMagnitude(simArgs[2]))) =>
     ReturnsZero(simOut)

\* C30 as the code has it: for vectors of equal length of which one has
\* magnitude 0, cosineSimilarity returns 0 and does not fail.
C30_ZeroVectorOfEqualLengthGivesZero ==
  (/\ Ended("cosine")
   /\ Len(simArgs[1]) = Len(simArgs[2])
   /\ (ZeroMagnitude(simArgs[1]) \/ ZeroMagnitude(simArgs[2]))) =>
     ReturnsZero(simOut)

\* the call was made with a non-zero first and a zero second vector of length 2
C30_Witness ==
  /\ Ended("cosine")
  /\ simArgs = << <<1, -1>>, <<0, 0>> >>
  /\ ReturnsZero(simOut)

\* the call threw the Error of a dimension mismatch
DimensionMismatch(out) ==
  /\ out.kind = "throws"
  /\ out.error \in {"Embedding dimensions must match", "Vector dimensions must match"}

\* C31: cosineSimilarity and dot fail with a dimension-mismatch error for
\* every pair of vectors of unequal length, and for no pair of equal length.
C31_MismatchFailsExactly ==
  (Ended("cosine") \/ Ended("dot")) =>
     /\ Len(simArgs[1]) # Len(simArgs[2]) => DimensionMismatch(simOut)
     /\ Len(simArgs[1]) = Len(simArgs[2]) => simOut.kind = "returns"

\* dot threw for vectors of lengths 1 and 2
C31_Witness ==
  /\ Ended("dot")
  /\ simArgs = << <<1>>, <<0, 1>> >>
  /\ DimensionMismatch(simOut)

\* the double x is at most 1
AtMostOne(x) ==
  \/ x = FZero
  \/ x.e < 1 - MantissaBits
  \/ x.e = 1 - MantissaBits /\ x.m = BPow2(MantissaBits - 1)

\* the double x is 1
IsOne(x) == x = [m |-> BPow2(MantissaBits - 1), e |-> 1 - MantissaBits]

\* C32: for all equal-length vectors a and b, 0 <= cosineSimilarity(a, b) <= 1,
\* and cosineSimilarity(a, a) = 1 whenever a is not the zero vector.
C32_WithinUnitInterval ==
  (Ended("cosine") /\ Len(simArgs[1]) = Len(simArgs[2])) =>
     /\ AtMostOne(simOut.number)
     /\ (simArgs[1] = simArgs[2] /\ ~ZeroMagnitude(simArgs[1])) => IsOne(simOut.number)

\* the same two statements of the quotient before it is rounded
WithinUnitIntervalBeforeRounding ==
  (Ended("cosine") /\ Len(simArgs[1]) = Len(simArgs[2])) =>
     /\ 0 <= simOut.value.n /\ simOut.value.n <= simOut.value.d
     /\ (simArgs[1] = simArgs[2] /\ ~ZeroMagnitude(simArgs[1])) =>
           simOut.value.n = simOut.value.d

\* the similarity of a vector with itself came out above 1
AboveOneReached ==
  /\ Ended("cosine")
  /\ simArgs = <<OnesOfThree, OnesOfThree>>
  /\ ~AtMostOne(simOut.number)

\* scores a and b are the same number
SameScore(a, b) == a.n * b.d = b.n * a.d

\* C33: rank(items, scores) returns a permutation of the input (item, score)
\* pairs ordered by non-increasing score in which pairs with equal scores keep
\* their input order; it fails when the two lists differ in length.
C33_RankIsStableDescending ==
  Ended("sort") =>
    LET items == simArgs[1]
        scores == simArgs[2]
    IN IF Len(items) # Len(scores) THEN simOut.kind = "throws"
       ELSE /\ simOut.kind = "returns"
            /\ Len(simOut.value) = Len(items)
            /\ \A i \in 1..Len(items) :
                  \E k \in 1..Len(simOut.value) :
                     simOut.value[k] = [item |-> items[i], score |-> scores[i]]
            /\ \A j \in 1..Len(simOut.value) : \A k \in (j + 1)..Len(simOut.value) :
                  /\ ~SimGreater(simOut.value[k].score, simOut.value[j].score)
                  /\ SameScore(simOut.value[j].score, simOut.value[k].score) =>
                        simOut.value[j].item < simOut.value[k].item

\* three items of which the first and the last have the same score
C33_Witness ==
  /\ Ended("sort")
  /\ simArgs = << <<1, 2, 3>>,
                  <<[n |-> 1, d |-> 2], [n |-> 1, d |-> 1], [n |-> 1, d |-> 2]>> >>
  /\ simOut.kind = "returns"
  /\ [k \in 1..3 |-> simOut.value[k].item] = <<2, 1, 3>>

\* ----------------------------------------------------------------------
\* Concurrent lookups of several ClipFilters on the shared EmbeddingCache.
\* The cache is the singleton, created with a capacity small enough for the
\* keys of the model to fill it.
\* ----------------------------------------------------------------------
SecondEmbedding == <<0, 1>>

RaceResponses ==
  { Success(RemoteEmbedding), Success(SecondEmbedding),
    Failure(<<ApiErrorPrefix("local"), "status">>) }

\* two requests have constructed their ClipFilter on the same singleton
RaceInit ==
  /\ PostIdle
  /\ ClientIdle
  /\ MatcherIdle
  /\ SimIdle
  /\ BgIdle
  /\ store = <<>>
  /\ maxSize \in 1..MaxCapacity
  /\ defaultTTL = CacheDefaultTTL
  /\ clock = 0
  /\ lastCall = NoCall
  /\ trail = [plain |-> FALSE]
  /\ heap = << <<>> >>
  /\ globalCache = 1
  /\ filterCache = [f \in 1..MaxFilters |-> 1]
  /\ lookups = {}
  /\ doneLookup = NoLookup
  /\ ledger = {}
  /\ ftime = 0

\* the client call of a lookup resolves on the shared cache
RaceResponse(l, resp) ==
  /\ ResolveLookup(l, resp, maxSize, defaultTTL)
  /\ UNCHANGED nonFilterVars

RaceNext ==
  \/ \E f \in 1..Len(filterCache), key \in FilterKeys : LookupEmbedding(f, key)
  \/ \E l \in lookups, resp \in RaceResponses : RaceResponse(l, resp)

RaceSpec == RaceInit /\ [][RaceNext]_allVars

OneEntryPerKey(m) == \A i, j \in 1..Len(m) : m[i].key = m[j].key => i = j

\* the entry the cache holds for a key is the one written last for that key
HoldsLatestWrite(m) ==
  \A i \in 1..Len(m) :
    \E e \in ledger : e.key = m[i].key /\ e.embedding = m[i].embedding

StoredByCaller ==
  /\ doneLookup # NoLookup
  /\ doneLookup.asked
  /\ ~ResponseFailed(doneLookup.response)

\* C34: whatever the interleaving of the lookups of several callers, two
\* callers that both missed the same key and both stored it included, the
\* shared cache holds at most one entry per key, never holds more entries than
\* its capacity, and the entry of a key is the one written last: a later write
\* replaces the earlier one.
C34_RacingLookupsKeepCacheSound ==
  /\ \A r \in 1..Len(heap) :
       /\ OneEntryPerKey(heap[r])
       /\ EcSize(heap[r]) <= maxSize
       /\ HoldsLatestWrite(heap[r])
  /\ StoredByCaller =>
       LET ck == createCacheKey(doneLookup.key)
       IN /\ MapHas(doneLookup.cacheAfter, ck)
          /\ MapGet(doneLookup.cacheAfter, ck).embedding = doneLookup.response.embedding

\* two callers missed the same key, both fetched, and the second to finish
\* overwrote what the first had stored, in a cache that was full
C34_Witness ==
  /\ StoredByCaller
  /\ doneLookup.prior = {}
  /\ EcSize(doneLookup.cacheBefore) = maxSize
  /\ LET ck == createCacheKey(doneLookup.key)
     IN /\ MapHas(doneLookup.cacheBefore, ck)
        /\ MapGet(doneLookup.cacheBefore, ck).embedding # doneLookup.response.embedding
        /\ MapGet(heap[globalCache], ck).embedding = doneLookup.response.embedding

\* ----------------------------------------------------------------------
\* Properties of the normalized search, the word search and the score rules
\* ----------------------------------------------------------------------
\* the exact search of this finder came back without candidates and the
\* finder has gone on from it
ExactFoundNothing(f) ==
  /\ Len(f.log) >= 1
  /\ ~HasCandidates(f.log[1])
  /\ (Len(f.log) >= 2 \/ f.done)

NormalizedPerformed(f) == Len(f.log) >= 2 /\ f.log[2].step = "normalized"

\* the name trimmed, lowercased, with all whitespace removed
StatedNormalizedName(name) == removeWhitespace(toLowerCase(trim(name)))

\* C35: after an exact search without candidates the normalized search is
\* performed if and only if the normalized name differs from the name the
\* exact search used.
C35_NormalizedIffDiffers ==
  \A i \in 1..Len(finders) :
    LET f == finders[i]
    IN ExactFoundNothing(f) =>
         (NormalizedPerformed(f) <=> StatedNormalizedName(f.mappedName) # f.mappedName)

\* what the code does: the normalized search is performed exactly when the
\* normalized name differs from the lowercased name, hence only if it differs
\* from the name the exact search used
NormalizedOnlyIfDiffers ==
  \A i \in 1..Len(finders) :
    LET f == finders[i]
    IN ExactFoundNothing(f) =>
         /\ NormalizedPerformed(f) <=>
              StatedNormalizedName(f.mappedName) # toLowerCase(f.mappedName)
         /\ NormalizedPerformed(f) => StatedNormalizedName(f.mappedName) # f.mappedName

\* a name with a capital letter and no whitespace went from its exact search
\* to something other than the normalized search
NormalizedSkippedReached ==
  \E i \in 1..Len(finders) :
    /\ ExactFoundNothing(finders[i])
    /\ ~NormalizedPerformed(finders[i])
    /\ StatedNormalizedName(finders[i].mappedName) # finders[i].mappedName

\* the words of a name as stated: split on whitespace, words shorter than 2
\* characters discarded
KeptWords(name) == SelectSeq(split(name), LAMBDA w : Len(w) >= 2)

Orderings(n) == {p \in [1..n -> 1..n] : \A i, j \in 1..n : p[i] = p[j] => i = j}

\* ws is the kept words of the name in order of non-increasing length, words
\* of equal length in their original order
IsStatedWordOrder(ws, name) ==
  LET kept == KeptWords(name)
  IN /\ Len(ws) = Len(kept)
     /\ \E p \in Orderings(Len(kept)) :
          /\ \A i \in 1..Len(ws) : ws[i] = kept[p[i]]
          /\ \A i, j \in 1..Len(ws) :
               i < j => \/ Len(ws[i]) > Len(ws[j])
                        \/ (Len(ws[i]) = Len(ws[j]) /\ p[i] < p[j])

\* the queries of the word searches a finder has performed, in order
WordQueries(f) ==
  LET es == SelectSeq(f.log, LAMBDA e : e.step = "word")
  IN [k \in 1..Len(es) |-> es[k].query]

\* the word searches tried so far are the first words in the stated order, none
\* follows a word search with candidates, and a finder that ended without a
\* folder has tried them all
WordSearchInStatedOrder(f) ==
  \E ws \in {searchWords(f.mappedName)} :
    /\ IsStatedWordOrder(ws, f.mappedName)
    /\ Len(WordQueries(f)) <= Len(ws)
    /\ \A k \in 1..Len(WordQueries(f)) : WordQueries(f)[k] = ws[k]
    /\ (f.done /\ f.folderId = NoFolder) => WordQueries(f) = ws

\* the candidates of the last search of the finder
LastFolders(f) == IF f.log = <<>> THEN <<>> ELSE f.log[Len(f.log)].reply.folders

\* the first word search of the finder returned, among its candidates, a
\* gallery named by the word searched for
LongestWordNamesGallery(f, k) ==
  /\ Len(f.log) >= 1
  /\ f.log[Len(f.log)].step = "word"
  /\ Len(WordQueries(f)) = 1
  /\ k \in 1..Len(LastFolders(f))
  /\ HasCandidates(f.log[Len(f.log)])
  /\ toLowerCase(LastFolders(f)[k].name)
        = toLowerCase(f.log[Len(f.log)].query)

\* C36: the word search splits the alias-substituted name on whitespace,
\* discards words shorter than 2 characters and tries the rest, longest first
\* and equal lengths in their original order, stopping at the first word with
\* candidates; so a name whose longest word alone names a gallery resolves to
\* that gallery.
C36_WordSearchLongestFirst ==
  \A i \in 1..Len(finders) :
    LET f == finders[i]
    IN /\ WordSearchInStatedOrder(f)
       /\ \A k \in DOMAIN LastFolders(f) :
            LongestWordNamesGallery(f, k) =>
              f.folderId = LastFolders(f)[k].id

\* C36 as the code has it: the order of the word searches is as stated, and
\* the name resolves to the gallery its longest word names when the search
\* for that word returned no other candidate; with other candidates it resolves
\* to the one that scores highest against the whole name.
C36_WordSearchResolvesToBestCandidate ==
  \A i \in 1..Len(finders) :
    LET f == finders[i]
    IN /\ WordSearchInStatedOrder(f)
       /\ \A k \in DOMAIN LastFolders(f) :
            LongestWordNamesGallery(f, k) =>
              /\ f.done
              /\ f.folderId = BestOf(LastFolders(f), f.mappedName).id
              /\ Len(LastFolders(f)) = 1 =>
                   f.folderId = LastFolders(f)[k].id

\* a name of two words resolved to the only gallery the search for its longer
\* word returned
C36_Witness ==
  \E i \in 1..Len(finders) :
    /\ LongestWordNamesGallery(finders[i], 1)
    /\ Len(LastFolders(finders[i])) = 1
    /\ Len(KeptWords(finders[i].mappedName)) = 2
    /\ finders[i].folderId = LastFolders(finders[i])[1].id

\* a name tried two different words of equal length in their original order
EqualLengthWordsTried ==
  \E i \in 1..Len(finders) :
    LET ws == WordQueries(finders[i])
    IN /\ Len(ws) = 2
       /\ Len(ws[1]) = Len(ws[2])
       /\ ws[1] # ws[2]

\* the search for the longest word of a name returned the gallery named by
\* that word together with a gallery that shares more words with the name
WordNamedGalleryOutscored ==
  \E i \in 1..Len(finders) : \E k \in DOMAIN LastFolders(finders[i]) :
    /\ LongestWordNamesGallery(finders[i], k)
    /\ finders[i].folderId # LastFolders(finders[i])[k].id

\* the base score selectBestMatch gave this (gallery name, query name) pair
BaseOf(pair) == BaseScore(toLowerCase(pair[1]), toLowerCase(pair[2]))

StartsWithQuery(pair) == startsWith(toLowerCase(pair[1]), toLowerCase(pair[2]))

\* C38: the matcher never assigns the base score 850: every gallery name that
\* starts with the query name is scored by the equality rule (1000) or the
\* contains rule (900), so the starts-with rule is unreachable.
C38_BaseScoreNever850 ==
  \A pair \in ScoredPairs :
    /\ BaseOf(pair) # 850
    /\ StartsWithQuery(pair) => BaseOf(pair) \in {1000, 900}

\* C38 as the code has it: a gallery name that starts with the query name is
\* scored 1000 or 900, never by the starts-with rule; a base score of 850 comes
\* from the word rule alone, for three matched words.
C38_StartsWithRuleUnreachable ==
  \A pair \in ScoredPairs :
    /\ StartsWithQuery(pair) => BaseOf(pair) \in {1000, 900}
    /\ BaseOf(pair) = 850 =>
         /\ ~StartsWithQuery(pair)
         /\ ~includes(toLowerCase(pair[1]), toLowerCase(pair[2]))
         /\ BaseOf(pair) = 700 + 3 * 50

\* a gallery name that starts with the query name without being equal to it
\* was scored
C38_Witness ==
  \E pair \in ScoredPairs :
    /\ StartsWithQuery(pair)
    /\ toLowerCase(pair[1]) # toLowerCase(pair[2])
    /\ BaseOf(pair) = 900

\* a gallery name that shares three words with the query name was scored
ThreeSharedWordsScored ==
  \E pair \in ScoredPairs : BaseOf(pair) = 850

\* ----------------------------------------------------------------------
\* Properties of the selection returned by POST
\* ----------------------------------------------------------------------
\* the image ids that were written into the Stage 3 prompt for a folder
CandidateIds(folderName) ==
  UNION { SeqRange(prompt[k].imageIds) :
          k \in {j \in 1..Len(prompt) : prompt[j].folder = folderName} }

\* C37: in a successful response every entry with status matched carries a
\* selectedImageId that was among the candidates sent to Stage 3 for its
\* gallery; an id the collaborator returned from outside the candidates is
\* never passed on as a match.
C37_SelectedAmongCandidates ==
  response.success =>
    \A i \in 1..Len(response.characters) :
      response.characters[i].status = "matched" =>
        response.characters[i].selectedImageId
          \in CandidateIds(response.characters[i].folderName)

\* a successful response passed on a matched entry whose image id the
\* collaborator made up
ForeignIdPassedOn ==
  /\ response.success
  /\ prompt # <<>>
  /\ \E i \in 1..Len(response.characters) :
        /\ response.characters[i].status = "matched"
        /\ response.characters[i].folderName = prompt[i].folder
        /\ response.characters[i].selectedImageId \notin SeqRange(prompt[i].imageIds)

\* ======================================================================
\* background.js: the service worker's message handlers and its parse cache
\* ======================================================================
ParseCacheCapacity == 100
MaxMessages == 2
MaxEdits == 1
MaxClearMessages == 1

\* ----------------------------------------------------------------------
\* background/cache.js: LRUCache on a Map kept as entries in insertion order
\* ----------------------------------------------------------------------
\* get: the entry under the key moved to the end, or null (no entry)
LruGet(m, key) ==
  IF ~MapHas(m, key) THEN [found |-> <<>>, map |-> m]
  ELSE [found |-> <<MapGet(m, key)>>, map |-> Append(MapDelete(m, key), MapGet(m, key))]

\* set: a present key is deleted first, else the first key when the Map is full
LruSet(m, entry, capacity) ==
  LET kept == IF MapHas(m, entry.key) THEN MapDelete(m, entry.key)
              ELSE IF Len(m) >= capacity /\ m # <<>> THEN MapDelete(m, m[1].key)
              ELSE m
  IN Append(kept, entry)

LruClear(m) == <<>>

\* ----------------------------------------------------------------------
\* The objects passed to sendResponse
\* ----------------------------------------------------------------------
ErrorReply(error) ==
  [success |-> FALSE, error |-> error, dialogues |-> <<>>, characters |-> <<>>,
   unmatchedDialogues |-> <<>>]

\* one element of data.dialogues in the unified-select answer
ApiDialogue(index, name, folderName, imageId, status) ==
  [dialogueIndex |-> index, name |-> name, folderName |-> folderName,
   selectedImageId |-> imageId, status |-> status]

\* puts dialogue d, which precedes every element of sorted in the input, in
\* its place: (a, b) => a.dialogueIndex - b.dialogueIndex, stable
IndexInsert(d, sorted) ==
  LET before == SelectSeq(sorted, LAMBDA y : y.dialogueIndex < d.dialogueIndex)
      rest == SelectSeq(sorted, LAMBDA y : y.dialogueIndex >= d.dialogueIndex)
  IN before \o <<d>> \o rest

RECURSIVE sortByIndex(_)
sortByIndex(ds) ==
  IF ds = <<>> THEN <<>> ELSE IndexInsert(Head(ds), sortByIndex(Tail(ds)))

\* characterFolders.find(f => f.name === d.folderName) and
\* folder?.images.find(img => img._id === d.selectedImageId), as zero or one dialogue
ResolveDialogue(d, characterFolders) ==
  LET fs == SelectSeq(characterFolders, LAMBDA f : f.name = d.folderName)
      imgs == IF fs = <<>> THEN <<>>
              ELSE SelectSeq(fs[1].images, LAMBDA img : img = d.selectedImageId)
  IN IF imgs = <<>> THEN <<>>
     ELSE <<[dialogueIndex |-> d.dialogueIndex, name |-> d.name, folderId |-> fs[1].id,
             image |-> imgs[1]]>>

RECURSIVE ResolveAll(_, _)
ResolveAll(ds, characterFolders) ==
  IF ds = <<>> THEN <<>>
  ELSE ResolveDialogue(Head(ds), characterFolders) \o ResolveAll(Tail(ds), characterFolders)

\* the dialogues of the extension format: matched entries with an image id,
\* resolved against the folders fetched, in dialogue order
ConvertDialogues(apiDialogues, characterFolders) ==
  sortByIndex(ResolveAll(SelectSeq(apiDialogues,
                                   LAMBDA d : d.status = "matched" /\ d.selectedImageId # 0),
                         characterFolders))

\* characterMap: the first dialogue of every name
FirstPerName(dialogues) ==
  LET firsts == {k \in 1..Len(dialogues) :
                   \A j \in 1..(k - 1) : dialogues[j].name # dialogues[k].name}
      keep == SelectSeq([k \in 1..Len(dialogues) |-> [k |-> k, d |-> dialogues[k]]],
                        LAMBDA x : x.k \in firsts)
  IN [k \in 1..Len(keep) |-> [name |-> keep[k].d.name, folderId |-> keep[k].d.folderId,
                              image |-> keep[k].d.image]]

SuccessReply(apiDialogues, dialogues) ==
  LET unmatched == SelectSeq(apiDialogues, LAMBDA d : d.status = "unmatched")
  IN [success |-> TRUE, error |-> "", dialogues |-> dialogues,
      characters |-> FirstPerName(dialogues),
      unmatchedDialogues |-> [k \in 1..Len(unmatched) |->
                                [index |-> unmatched[k].dialogueIndex,
                                 name |-> unmatched[k].name]]]

\* ----------------------------------------------------------------------
\* What the collaborators of the model can answer
\* ----------------------------------------------------------------------
BgTexts == {"hello", "bye"}

NoParentFolder == 0
ParentFolder == 7

GalleryFolder == [name |-> "g", id |-> 31]

\* the children request: it throws, answers success: false, answers success
\* without data, or answers a folder list
FolderReplies ==
  { [kind |-> "threw", data |-> <<>>],
    [kind |-> "refused", data |-> <<>>],
    [kind |-> "noData", data |-> <<>>],
    [kind |-> "ok", data |-> <<>>],
    [kind |-> "ok", data |-> <<GalleryFolder>>] }

\* the image ids one folder request can yield; a failed request yields none
ImageLists == { <<>>, <<1, 2>> }

TagReplies == {"threw", "notOk", "noTags", "tags"}

\* the unified-select request: it throws, answers success: false, answers
\* success without data, or answers a dialogue list
SelectReplies ==
  { [kind |-> "threw", dialogues |-> <<>>],
    [kind |-> "refused", dialogues |-> <<>>],
    [kind |-> "noData", dialogues |-> <<>>],
    [kind |-> "ok", dialogues |-> <<>>],
    [kind |-> "ok", dialogues |-> <<ApiDialogue(0, "n", "g", 1, "matched")>>],
    [kind |-> "ok", dialogues |-> <<ApiDialogue(0, "n", "g", 9, "matched")>>],
    [kind |-> "ok", dialogues |-> <<ApiDialogue(1, "n", "g", 2, "matched"),
                                    ApiDialogue(0, "m", "x", 0, "unmatched"),
                                    ApiDialogue(0, "n", "g", 1, "matched")>>] }

\* ----------------------------------------------------------------------
\* The handlers
\* ----------------------------------------------------------------------
NoConfig == [enabled |-> FALSE, folderId |-> NoParentFolder, hasTags |-> FALSE, mappings |-> 0]

\* a handler that has been called and awaits chrome.storage.local.get
NewHandler(type, text) ==
  [type |-> type, text |-> text, pc |-> "getConfig", config |-> NoConfig,
   characterFolders |-> <<>>, born |-> clears, readAt |-> 0, sent |-> <<>>,
   path |-> "-", servedBy |-> 0]

\* sendResponse(reply) followed by return
sendResponse(h, reply, path) ==
  [h EXCEPT !.sent = Append(@, reply), !.pc = "done", !.path = path]

BgInit ==
  /\ PostIdle
  /\ CacheIdle
  /\ ClientIdle
  /\ FilterIdle
  /\ MatcherIdle
  /\ SimIdle
  /\ bgStorage \in [enabled : BOOLEAN, folderId : {NoParentFolder, ParentFolder},
                    hasTags : BOOLEAN, mappings : {1}]
  /\ parseCache = <<>>
  /\ handlers = <<>>
  /\ changed = <<>>
  /\ clears = 0
  /\ edits = 0
  /\ clearMessages = 0

\* onMessage: PARSE_AND_FIND_MULTIPLE
ReceiveParse(text) ==
  /\ Len(handlers) < MaxMessages
  /\ handlers' = Append(handlers, NewHandler("PARSE_AND_FIND_MULTIPLE", text))
  /\ UNCHANGED <<bgStorage, parseCache, changed, clears, edits, clearMessages>>
  /\ UNCHANGED nonBgVars

\* onMessage: CLEAR_CACHE; it is answered at once with success: true
ReceiveClear ==
  /\ clearMessages < MaxClearMessages
  /\ clearMessages' = clearMessages + 1
  /\ parseCache' = LruClear(parseCache)
  /\ clears' = clears + 1
  /\ UNCHANGED <<bgStorage, handlers, changed, edits>>
  /\ UNCHANGED nonBgVars

\* what follows chrome.storage.local.get once it has settled, up to the next await
AfterConfig(h, outcome, config, m) ==
  LET g == [h EXCEPT !.config = config, !.readAt = clears]
      got == LruGet(m, h.text)
  IN IF outcome = "rejected"
     THEN [handler |-> sendResponse(h, ErrorReply("storage"), "exception"), map |-> m]
     ELSE IF ~config.enabled
     THEN [handler |-> sendResponse(g, ErrorReply("Extension is disabled"), "disabled"),
           map |-> m]
     ELSE IF config.folderId = NoParentFolder
     THEN [handler |-> sendResponse(g, ErrorReply("Parent folder not selected"), "noFolder"),
           map |-> m]
     ELSE IF got.found # <<>>
     THEN [handler |-> [sendResponse(g, got.found[1].value, "cacheHit")
                          EXCEPT !.servedBy = got.found[1].by],
           map |-> got.map]
     ELSE [handler |-> [g EXCEPT !.pc = "fetchFolders"], map |-> got.map]

ConfigRead(i, outcome) ==
  /\ handlers[i].pc = "getConfig"
  /\ LET r == AfterConfig(handlers[i], outcome, bgStorage, parseCache)
     IN /\ handlers' = [handlers EXCEPT ![i] = r.handler]
        /\ parseCache' = r.map
  /\ UNCHANGED <<bgStorage, changed, clears, edits, clearMessages>>
  /\ UNCHANGED nonBgVars

\* the children request settles
FoldersResponse(i, reply) ==
  /\ handlers[i].pc = "fetchFolders"
  /\ LET h == handlers[i]
         g == IF reply.kind \in {"threw", "refused"}
              THEN sendResponse(h, ErrorReply("Failed to fetch character folders"),
                                "fetchFailure")
              ELSE IF reply.kind = "noData"
              THEN sendResponse(h, ErrorReply("TypeError"), "exception")
              ELSE IF Len(reply.data) = 0
              THEN sendResponse(h, ErrorReply("No character folders found in parent folder"),
                                "noFolders")
              ELSE [h EXCEPT !.pc = "fetchImages",
                             !.characterFolders =
                                [k \in 1..Len(reply.data) |->
                                   [name |-> reply.data[k].name, id |-> reply.data[k].id,
                                    images |-> <<>>]]]
     IN handlers' = [handlers EXCEPT ![i] = g]
  /\ UNCHANGED <<bgStorage, parseCache, changed, clears, edits, clearMessages>>
  /\ UNCHANGED nonBgVars

\* Promise.all over the image requests settles; the tags of the config are
\* looked at and the next request is issued
ImagesResponse(i, images) ==
  /\ handlers[i].pc = "fetchImages"
  /\ LET h == handlers[i]
     IN handlers' = [handlers EXCEPT ![i] =
                       [h EXCEPT !.characterFolders =
                                    [k \in 1..Len(h.characterFolders) |->
                                       [h.characterFolders[k] EXCEPT !.images = images[k]]],
                                 !.pc = IF h.config.hasTags THEN "select" ELSE "fetchTags"]]
  /\ UNCHANGED <<bgStorage, parseCache, changed, clears, edits, clearMessages>>
  /\ UNCHANGED nonBgVars

\* the folder-tags request settles
TagsResponse(i, reply) ==
  /\ handlers[i].pc = "fetchTags"
  /\ LET h == handlers[i]
         g == IF reply = "tags" THEN [h EXCEPT !.pc = "saveTags"]
              ELSE sendResponse(h, ErrorReply("Failed to load folder tags"), "missingTags")
     IN handlers' = [handlers EXCEPT ![i] = g]
  /\ UNCHANGED <<bgStorage, parseCache, changed, clears, edits, clearMessages>>
  /\ UNCHANGED nonBgVars

\* chrome.storage.local.set({folderTagsCache}) settles; a rejection is swallowed
TagsSaved(i, outcome) ==
  /\ handlers[i].pc = "saveTags"
  /\ handlers' = [handlers EXCEPT ![i].pc = "select"]
  /\ IF outcome = "resolved"
     THEN /\ bgStorage' = [bgStorage EXCEPT !.hasTags = TRUE]
          /\ changed' = Append(changed, "folderTagsCache")
     ELSE UNCHANGED <<bgStorage, changed>>
  /\ UNCHANGED <<parseCache, clears, edits, clearMessages>>
  /\ UNCHANGED nonBgVars

AfterSelect_CachingEveryReply(h, i, reply, m) ==
  LET dialogues == ConvertDialogues(reply.dialogues, h.characterFolders)
      g == IF reply.kind \in {"threw", "refused"}
           THEN sendResponse(h, ErrorReply("Failed to select images"), "selectFailure")
           ELSE IF reply.kind = "noData"
           THEN sendResponse(h, ErrorReply("TypeError"), "exception")
           ELSE IF Len(dialogues) = 0
           THEN sendResponse(h, ErrorReply("No appropriate images found for any dialogue"),
                             "noImage")
           ELSE sendResponse(h, SuccessReply(reply.dialogues, dialogues), "success")
  IN [handler |-> g,
      map |-> LruSet(m, [key |-> h.text, value |-> g.sent[Len(g.sent)], by |-> i],
                     ParseCacheCapacity)]

\* what follows the unified-select request once it has settled: the conversion, the
\* parseCache.set of a result and the response
AfterSelect(h, i, reply, m) ==
  LET dialogues == ConvertDialogues(reply.dialogues, h.characterFolders)
      stored == SuccessReply(reply.dialogues, dialogues)
  IN IF reply.kind \in {"threw", "refused"}
     THEN [handler |-> sendResponse(h, ErrorReply("Failed to select images"),
                                    "selectFailure"),
           map |-> m]
     ELSE IF reply.kind = "noData"
     THEN [handler |-> sendResponse(h, ErrorReply("TypeError"), "exception"), map |-> m]
     ELSE IF Len(dialogues) = 0
     THEN [handler |-> sendResponse(h, ErrorReply("No appropriate images found for any dialogue"),
                                    "noImage"),
           map |-> m]
     ELSE [handler |-> sendResponse(h, stored, "success"),
           map |-> LruSet(m, [key |-> h.text, value |-> stored, by |-> i],
                          ParseCacheCapacity)]

SelectResponse(i, reply) ==
  /\ handlers[i].pc = "select"
  /\ LET r == AfterSelect(handlers[i], i, reply, parseCache)
     IN /\ handlers' = [handlers EXCEPT ![i] = r.handler]
        /\ parseCache' = r.map
  /\ UNCHANGED <<bgStorage, changed, clears, edits, clearMessages>>
  /\ UNCHANGED nonBgVars

\* the options page writes a key of chrome.storage.local
StorageEdit(key) ==
  /\ edits < MaxEdits
  /\ edits' = edits + 1
  /\ bgStorage' = IF key = "characterMappings"
                  THEN [bgStorage EXCEPT !.mappings = @ + 1]
                  ELSE bgStorage
  /\ changed' = Append(changed, key)
  /\ UNCHANGED <<parseCache, handlers, clears, clearMessages>>
  /\ UNCHANGED nonBgVars

\* the storage.onChanged listener runs for the oldest undelivered change
OnChanged ==
  /\ changed # <<>>
  /\ changed' = Tail(changed)
  /\ IF Head(changed) \in {"projectUrl", "characterMappings"}
     THEN /\ parseCache' = LruClear(parseCache)
          /\ clears' = clears + 1
     ELSE UNCHANGED <<parseCache, clears>>
  /\ UNCHANGED <<bgStorage, handlers, edits, clearMessages>>
  /\ UNCHANGED nonBgVars

BgNext ==
  \/ \E text \in BgTexts : ReceiveParse(text)
  \/ ReceiveClear
  \/ \E i \in 1..Len(handlers), outcome \in {"resolved", "rejected"} : ConfigRead(i, outcome)
  \/ \E i \in 1..Len(handlers), reply \in FolderReplies : FoldersResponse(i, reply)
  \/ \E i \in 1..Len(handlers) :
       \E images \in [1..Len(handlers[i].characterFolders) -> ImageLists] :
         ImagesResponse(i, images)
  \/ \E i \in 1..Len(handlers), reply \in TagReplies : TagsResponse(i, reply)
  \/ \E i \in 1..Len(handlers), outcome \in {"resolved", "rejected"} : TagsSaved(i, outcome)
  \/ \E i \in 1..Len(handlers), reply \in SelectReplies : SelectResponse(i, reply)
  \/ \E key \in {"characterMappings", "projectUrl"} : StorageEdit(key)
  \/ OnChanged

BgSpec == BgInit /\ [][BgNext]_allVars

\* ----------------------------------------------------------------------
\* Properties of the service worker
\* ----------------------------------------------------------------------
\* handler i was answered from the parse cache
AnsweredFromCache(i) == handlers[i].servedBy # 0

\* C39: once the parse cache has been cleared (characterMappings or projectUrl
\* changed, or CLEAR_CACHE was received), no request received after the clear
\* is answered from the cache with a result of a request that read its
\* configuration before the clear, a request in flight at the clear included.
C39_NoAnswerFromBeforeClear ==
  \A i \in 1..Len(handlers) :
    AnsweredFromCache(i) =>
      handlers[handlers[i].servedBy].readAt >= handlers[i].born

\* a request received after a mapping change had cleared the cache was
\* answered with the result of a request that had read the mappings before
\* the change
StaleMappingAnswer ==
  \E i \in 1..Len(handlers) :
    /\ AnsweredFromCache(i)
    /\ handlers[handlers[i].servedBy].readAt < handlers[i].born
    /\ handlers[handlers[i].servedBy].config.mappings # handlers[i].config.mappings

\* the paths of handleParseAndFindMultiple that end with a response
ResponsePaths ==
  {"disabled", "noFolder", "cacheHit", "fetchFailure", "noFolders", "missingTags",
   "selectFailure", "noImage", "success", "exception"}

\* the handler is not awaiting anything: every call it awaited has settled
AllSettled(h) == h.pc = "done"

\* C40: a PARSE_AND_FIND_MULTIPLE message is answered at most once on every
\* path, exactly once when every call its handler awaits has settled, and the
\* parse cache holds successful results only.
C40_OneResponsePerMessage ==
  /\ \A i \in 1..Len(handlers) :
       /\ Len(handlers[i].sent) <= 1
       /\ AllSettled(handlers[i]) <=> Len(handlers[i].sent) = 1
       /\ AllSettled(handlers[i]) <=> handlers[i].path \in ResponsePaths
  /\ \A k \in 1..Len(parseCache) :
       /\ parseCache[k].value.success
       /\ parseCache[k].value.dialogues # <<>>

\* one message was answered with a fresh result and another one from the
\* cache, while results are cached
C40_Witness ==
  /\ parseCache # <<>>
  /\ \E i, j \in 1..Len(handlers) :
       /\ handlers[i].path = "success"
       /\ handlers[j].path = "cacheHit"
       /\ handlers[j].sent = handlers[i].sent

\* every path that ends with a response has been taken by some message
PathTaken(path) == \E i \in 1..Len(handlers) : handlers[i].path = path

FailurePathsTaken ==
  /\ Len(handlers) = 2
  /\ handlers[1].path \in {"fetchFailure", "noFolders", "missingTags"}
  /\ handlers[2].path \in {"selectFailure", "noImage", "exception"}

====
